---------------------------- MODULE Spec2Model ----------------------------
(***************************************************************************)
(* Verification model of the RMC / gear-on-rent Odoo addons.               *)
(*                                                                         *)
(* Three groups of state are modelled, each with its own specification:    *)
(*   SpecSplit    the quantity chunker  (_gear_split_quantity)             *)
(*   SpecWindows  the window partitioner (_gear_iter_monthly_windows)      *)
(*   SpecLifecycle  one contractor agreement: signature, activation and    *)
(*                the write lock                                           *)
(*   SpecClosure  the closure of an agreement and the settlement wizard    *)
(*                                                                         *)
(* Conventions.                                                            *)
(*  - Quantities are Python floats in the source.  They are modelled as    *)
(*    exact decimals counted in thousandths (1000 = 1.000), so that        *)
(*    round(x, 2) is a real conversion (to a multiple of 10) and not the   *)
(*    identity.  Binary representation error of floats is not modelled.    *)
(*  - Dates are day numbers of one non-leap year (1 = 1 January);          *)
(*    datetimes are seconds since midnight of 1 January.                   *)
(*  - One action is one request: an exception raised by a handler aborts   *)
(*    the request and the ORM rolls its transaction back, so the records   *)
(*    keep the values they had before the call; only the outcome of the    *)
(*    call (lastOp, lastError) is recorded.                                *)
(***************************************************************************)
EXTENDS Integers, Sequences, FiniteSets

VARIABLES
    \* ---- quantity chunker
    total_qty,      \* argument total_qty, in thousandths
    max_chunk,      \* argument max_chunk, in thousandths
    quantities,     \* the returned list, in thousandths
    split_done      \* TRUE once _gear_split_quantity has returned

splitVars == <<total_qty, max_chunk, quantities, split_done>>

VARIABLES
    \* ---- window partitioner (one sale order)
    x_contract_start,   \* sale.order.x_contract_start (date)
    x_contract_end,     \* sale.order.x_contract_end (date)
    contract_start_dt,  \* _gear_get_contract_start_datetime(): <<>> or <<utc>>
    x_cooling_end,      \* sale.order.x_cooling_end: <<>> (False) or <<utc>>
    tz_offset,          \* UTC offset, in seconds, of _gear_get_timezone()
    windows,            \* the list returned by _gear_iter_monthly_windows
    windows_done        \* TRUE once the partitioner has returned

windowVars == <<x_contract_start, x_contract_end, contract_start_dt,
                x_cooling_end, tz_offset, windows, windows_done>>

VARIABLES
    \* ---- one rmc.contract.agreement record and the records around it
    agreement,              \* the fields of the agreement (a record)
    sign_request,           \* sign_request_id: "none", or the request's state
    signed_attachment,      \* an ir.attachment named like 'signed' exists
    previous_agreement_id,  \* <<>> or <<the previous agreement>>
    breakdown_event_ids,    \* <<>> or <<the rmc.breakdown.event>>
    inventory_handover_ids, \* <<>> or <<the rmc.inventory.handover>>
    wizard,                 \* <<>> or <<the settlement wizard>>
    account_moves,          \* move types of the settlement entries created
    lastOp,                 \* the last call made
    lastError               \* the exception it raised, or "none"

agreementVars == <<agreement, sign_request, signed_attachment,
                   previous_agreement_id, breakdown_event_ids,
                   inventory_handover_ids, wizard, account_moves,
                   lastOp, lastError>>

VARIABLES
    \* ---- the monthly orders of the sale order (gear.rmc.monthly.order)
    x_monthly_mgq,      \* sale.order.x_monthly_mgq, in whole units
    monthly_orders      \* the monthly orders of the contract, in id order

orderVars == <<x_monthly_mgq, monthly_orders>>

InitOrdersIdle ==
    /\ x_monthly_mgq = 0
    /\ monthly_orders = <<>>

\* the groups of state that the agreement's actions never touch
\* the retention release date: the vendor bill, the agreement's retention
\* fields, today's date and the release date computed for the bill
VARIABLES
    bill,
    retention_policy,
    context_today,
    scheduled_release_date

retentionVars == <<bill, retention_policy, context_today, scheduled_release_date>>

InitRetentionIdle ==
    /\ bill = [invoice_date |-> <<>>, invoice_date_due |-> <<>>]
    /\ retention_policy =
          [retention_duration |-> "90_days", end_date |-> <<>>,
           validity_end |-> <<>>]
    /\ context_today = <<>>
    /\ scheduled_release_date = <<>>

\* the scheduled jobs: the clock (hours), the fleet module's diesel
\* logs with the last-sync parameter and the mirrored diesel logs; the
\* maintenance requests and breakdowns with their parameter and the
\* mirrored maintenance checks; the attendances with their parameter and
\* the attendance compliance records; job_rerun tells that the last step
\* ran a job again directly after a completed run of the same job
VARIABLES
    now,
    diesel_logs,
    diesel_last_sync,
    rmc_diesel_logs,
    maintenance_requests,
    breakdown_events,
    maintenance_last_sync,
    rmc_maintenance_checks,
    hr_attendances,
    attendance_last_sync,
    rmc_attendance_records,
    job_rerun

dieselVars == <<diesel_logs, diesel_last_sync, rmc_diesel_logs>>

maintenanceVars ==
    <<maintenance_requests, breakdown_events, maintenance_last_sync,
      rmc_maintenance_checks>>

attendanceVars ==
    <<hr_attendances, attendance_last_sync, rmc_attendance_records>>

syncData == <<now, dieselVars, maintenanceVars, attendanceVars>>

syncVars == <<syncData, job_rerun>>

InitDieselIdle ==
    /\ diesel_logs = <<>>
    /\ diesel_last_sync = <<>>
    /\ rmc_diesel_logs = <<>>

InitMaintenanceIdle ==
    /\ maintenance_requests = <<>>
    /\ breakdown_events = <<>>
    /\ maintenance_last_sync = <<>>
    /\ rmc_maintenance_checks = <<>>

InitAttendanceIdle ==
    /\ hr_attendances = <<>>
    /\ attendance_last_sync = <<>>
    /\ rmc_attendance_records = <<>>

InitSyncIdle ==
    /\ now = 0
    /\ job_rerun = FALSE
    /\ InitDieselIdle
    /\ InitMaintenanceIdle
    /\ InitAttendanceIdle

\* the telemetry webhook: the configured token, the work order of the work
\* center with the monthly order that covers it, the dockets, and the last
\* request with its response
VARIABLES
    ids_token,
    workorder,
    monthly_order_link,
    dockets,
    request,
    response

webhookData == <<ids_token, workorder, monthly_order_link, dockets>>

webhookVars == <<webhookData, request, response>>

NoRequest ==
    [x_ids_token |-> "", authorization |-> <<>>,
     workcenter_external_id |-> "", timestamp |-> "", docket_no |-> ""]

NoResponse == [http_status |-> 0, status |-> "", message |-> ""]

InitWebhookIdle ==
    /\ ids_token = ""
    /\ workorder = [state |-> "done", gear_last_ids_timestamp |-> ""]
    /\ monthly_order_link = "none"
    /\ dockets = <<>>
    /\ request = NoRequest
    /\ response = NoResponse

\* whether the user of the request is an RMC manager or an accounting user
VARIABLES user_privileged

\* the rmc.contract.agreement records of the overlap constraint, by id
VARIABLES agreements

\* NGT and LOTO relief of one RMC contract (sale.order): the contract's
\* monthly wave-off allowance, the day of today, the gear.rmc.monthly.order
\* records by first day, the daily mrp.production records by day, the
\* gear.loto.request and gear.ngt.request records by id and their ledgers
VARIABLES x_loto_waveoff_hours, relief_today, rmc_monthly_orders, mrp_productions,
          relief_requests, gear_loto_ledger, gear_ngt_ledger

reliefVars ==
    <<x_loto_waveoff_hours, relief_today, rmc_monthly_orders,
      mrp_productions,
      relief_requests, gear_loto_ledger, gear_ngt_ledger>>

InitReliefIdle ==
    /\ x_loto_waveoff_hours = 0
    /\ relief_today = 0
    /\ rmc_monthly_orders = <<>>
    /\ mrp_productions = <<>>
    /\ relief_requests = <<>>
    /\ gear_loto_ledger = <<>>
    /\ gear_ngt_ledger = <<>>

\* the incremental generation of the monthly orders: the state of the
\* sale.order, the state of each monthly order of monthly_orders (in the
\* same order) and the day of today
VARIABLES sale_order_state, monthly_order_states, order_today

incrementalVars == <<sale_order_state, monthly_order_states, order_today>>

InitIncrementalIdle ==
    /\ sale_order_state = "draft"
    /\ monthly_order_states = <<>>
    /\ order_today = 0

\* the payment hold of the agreement: payment_hold and payment_hold_reason
\* (<<>> stands for False, no reason)
VARIABLES payment_hold, payment_hold_reason

holdVars == <<payment_hold, payment_hold_reason>>

\* the stored values of a new agreement are those the compute assigns
InitHoldIdle ==
    /\ payment_hold = FALSE
    /\ payment_hold_reason = <<>>

\* the work orders of one daily production (mrp.production) and their
\* dockets: the parameter gear_on_rent.workorder_max_qty and the quantity
\* of the production (in thousandths), the mrp.workorder records by id, the
\* queue x_pending_workorder_chunks, the gear.rmc.docket records in the
\* order of their creation, and the last telemetry payload with the
\* response it got
VARIABLES workorder_max_qty, product_qty, workorder_ids,
          x_pending_workorder_chunks, x_docket_ids, ids_payload,
          ids_response

workorderVars ==
    <<workorder_max_qty, product_qty, workorder_ids,
      x_pending_workorder_chunks, x_docket_ids, ids_payload, ids_response>>

InitWorkordersIdle ==
    /\ workorder_max_qty = 0
    /\ product_qty = 0
    /\ workorder_ids = <<>>
    /\ x_pending_workorder_chunks = <<>>
    /\ x_docket_ids = <<>>
    /\ ids_payload = <<>>
    /\ ids_response = <<>>

laterVars == <<reliefVars, incrementalVars, holdVars, workorderVars>>

InitLaterIdle ==
    /\ InitReliefIdle
    /\ InitIncrementalIdle
    /\ InitHoldIdle
    /\ InitWorkordersIdle

miscVars ==
    <<retentionVars, webhookVars, user_privileged, agreements, laterVars>>

InitMiscIdle ==
    /\ InitRetentionIdle
    /\ InitWebhookIdle
    /\ user_privileged = FALSE
    /\ agreements = <<>>
    /\ InitLaterIdle

restVars == <<orderVars, miscVars, syncVars>>

InitRestIdle == InitOrdersIdle /\ InitMiscIdle /\ InitSyncIdle

calcVars == <<splitVars, windowVars, restVars>>

vars == <<splitVars, windowVars, restVars, agreementVars>>

\* the agreement as the tests' setUp creates it
NewAgreement ==
    [state |-> "draft", contract_type |-> "driver_transport",
     mgq_target |-> 1000, validity_start |-> TRUE, validity_end |-> TRUE,
     settlement_hold |-> FALSE, clause_ids |-> FALSE]

InitAgreementIdle ==
    /\ agreement = NewAgreement
    /\ sign_request = "none"
    /\ signed_attachment = FALSE
    /\ previous_agreement_id = <<>>
    /\ breakdown_event_ids = <<>>
    /\ inventory_handover_ids = <<>>
    /\ wizard = <<>>
    /\ account_moves = {}
    /\ lastOp = "none"
    /\ lastError = "none"

-----------------------------------------------------------------------------
(* Bounds of the chunker's inputs.                                         *)
MaxTotalMilli == 45
MinTotalMilli == 12
MaxChunkMilli == 25
\* the default of the parameter gear_on_rent.workorder_max_qty, "7.0"
DefaultMaxChunkMilli == 7000

\* A value with a 5 in the third decimal is left out of the inputs: Python
\* rounds the binary approximation of such a value, not the decimal tie, so
\* the direction of round(x, 2) there is a property of the approximation.
NoTie(x) == x % 10 # 5
TotalQtys == {x \in (0 - MinTotalMilli)..MaxTotalMilli : NoTie(x)}
MaxChunks == {x \in (0 - 1)..MaxChunkMilli : NoTie(x)}
\* every small pair, and the documented example split(100, 7)
SplitInputs == (TotalQtys \X MaxChunks)
                 \cup {<<100 * 1000, DefaultMaxChunkMilli>>}

-----------------------------------------------------------------------------
(* Arithmetic helpers.                                                     *)

RECURSIVE SumSeq(_)
SumSeq(s) == IF s = <<>> THEN 0 ELSE Head(s) + SumSeq(Tail(s))

\* math.ceil(a / b) for b > 0
Ceil(a, b) == 0 - ((0 - a) \div b)

\* round(x, 2): the nearest multiple of 0.01, a tie going to the even one
Round2(x) ==
    LET q == x \div 10
        r == x % 10
    IN  IF r < 5 THEN q * 10
        ELSE IF r > 5 THEN (q + 1) * 10
        ELSE IF q % 2 = 0 THEN q * 10 ELSE (q + 1) * 10

-----------------------------------------------------------------------------
(* _gear_split_quantity                                                    *)

\* (mutant) a loop that stops as soon as nothing remains
RECURSIVE SplitLoop_StopWhenEmpty(_, _, _, _)
SplitLoop_StopWhenEmpty(n, remaining, maxc, acc) ==
    IF n = 0 \/ remaining <= 0 THEN acc
    ELSE LET chunk == IF remaining > maxc THEN maxc ELSE remaining
         IN  SplitLoop_StopWhenEmpty(n - 1, Round2(remaining - chunk), maxc,
                                     Append(acc, Round2(chunk)))

\* the for-loop: `n` iterations left, `remaining` still to hand out
RECURSIVE SplitLoop(_, _, _, _)
SplitLoop(n, remaining, maxc, acc) ==
    IF n = 0 THEN acc
    ELSE LET chunk == IF remaining > maxc THEN maxc ELSE remaining
         IN  SplitLoop(n - 1, Round2(remaining - chunk), maxc,
                       Append(acc, Round2(chunk)))

\* (mutant) the final chunk left as the loop produced it
AdjustLast_NoCorrection(qs, total) == qs

\* the correction of the final chunk
AdjustLast(qs, total) ==
    LET adjustment == Round2(total - SumSeq(qs))
    IN  IF qs = <<>> THEN qs
        ELSE [qs EXCEPT ![Len(qs)] = Round2(qs[Len(qs)] + adjustment)]

_gear_split_quantity(total, maxc) ==
    IF maxc <= 0 THEN <<Round2(total)>>
    ELSE LET t == Round2(total)
         IN  IF t <= 0 THEN <<0>>
             ELSE LET parts == Ceil(t, maxc)
                      qs == AdjustLast(SplitLoop(parts, t, maxc, <<>>), t)
                  IN  IF qs = <<>> THEN <<0>> ELSE qs

InitWindowsIdle ==
    /\ x_contract_start = 0
    /\ x_contract_end = 0
    /\ contract_start_dt = <<>>
    /\ x_cooling_end = <<>>
    /\ tz_offset = 0
    /\ windows = <<>>
    /\ windows_done = FALSE

InitSplit ==
    /\ InitRestIdle
    /\ InitWindowsIdle
    /\ InitAgreementIdle
    /\ \E p \in SplitInputs : total_qty = p[1] /\ max_chunk = p[2]
    /\ quantities = <<>>
    /\ split_done = FALSE

SplitQuantity ==
    /\ ~split_done
    /\ quantities' = _gear_split_quantity(total_qty, max_chunk)
    /\ split_done' = TRUE
    /\ UNCHANGED <<total_qty, max_chunk>>
    /\ UNCHANGED windowVars
    /\ UNCHANGED agreementVars
    /\ UNCHANGED restVars

NextSplit == SplitQuantity

SpecSplit == InitSplit /\ [][NextSplit]_vars

-----------------------------------------------------------------------------
(* Claims about the quantity chunker (checked under SpecSplit).            *)

FourteenSevensAndATwo ==
    [i \in 1..15 |-> IF i <= 14 THEN 7 * 1000 ELSE 2 * 1000]

\* C7 as stated: for every total and every max_chunk > 0 the chunks sum
\* exactly to round(total, 2).
C7_SumIsRoundedTotal ==
    (split_done /\ max_chunk > 0)
        => SumSeq(quantities) = Round2(total_qty)

\* C7 amended: for every total whose rounded value is not negative and every
\* max_chunk > 0 the chunks sum exactly to round(total, 2); for a total whose
\* rounded value is negative the result is the single chunk 0.0.
C7_SumIsRoundedTotalWhenNonNegative ==
    (split_done /\ max_chunk > 0)
        => IF Round2(total_qty) >= 0
           THEN SumSeq(quantities) = Round2(total_qty)
           ELSE quantities = <<0>>

\* C7 witness: a split whose rounded chunks do not add up by themselves, so
\* that the correction of the last chunk is what makes the sum exact.
C7_Witness ==
    /\ split_done
    /\ max_chunk > 0
    /\ Len(quantities) > 1
    /\ quantities[1] * Len(quantities) # Round2(total_qty)
    /\ quantities[Len(quantities)] # quantities[1]
    /\ max_chunk % 10 # 0
    /\ SumSeq(quantities) = Round2(total_qty)

\* C8 as stated: for every total > 0 and max_chunk > 0 the chunker returns
\* exactly ceil(total / max_chunk) chunks.
C8_LenIsCeilOfTotal ==
    (split_done /\ max_chunk > 0 /\ total_qty > 0)
        => /\ Len(quantities) * max_chunk >= total_qty
           /\ (Len(quantities) - 1) * max_chunk < total_qty

\* C8 amended: for every max_chunk > 0 and every total whose rounded value
\* round(total, 2) is positive the chunker returns exactly
\* ceil(round(total, 2) / max_chunk) chunks (a total that rounds to zero or
\* less gives the single chunk 0.0); split(100, 7) returns 15 chunks,
\* fourteen of 7 and one of 2.
C8_LenIsCeilOfRoundedTotal ==
    (split_done /\ max_chunk > 0)
        => /\ IF Round2(total_qty) > 0
              THEN /\ Len(quantities) * max_chunk >= Round2(total_qty)
                   /\ (Len(quantities) - 1) * max_chunk < Round2(total_qty)
              ELSE quantities = <<0>>
           /\ (total_qty = 100 * 1000 /\ max_chunk = 7 * 1000)
                 => quantities = FourteenSevensAndATwo

\* C8 witness: the documented example has been split.
C8_Witness ==
    /\ split_done
    /\ total_qty = 100 * 1000
    /\ max_chunk = 7 * 1000
    /\ Len(quantities) = 15

\* C9 as stated: every chunk is non-negative and, for max_chunk > 0, no
\* larger than max_chunk, the corrected last chunk included.
C9_ChunksWithinCap ==
    (split_done /\ max_chunk > 0)
        => \A i \in 1..Len(quantities) :
              quantities[i] >= 0 /\ quantities[i] <= max_chunk

-----------------------------------------------------------------------------
(* The window partitioner: sale.order._gear_iter_monthly_windows           *)

\* Bounds of the partitioner's inputs: contract dates lie between these two
\* days of the year (30 = 30 January, 60 = 1 March).
FirstDay == 30
LastDay == 60

SecondsPerDay == 86400
\* the user's time zone is UTC or a zone this many seconds east of it (+05:30)
TzOffsetEast == 19800
\* time(23, 59, 59) of _gear_localize_day(is_end=True)
EndOfDaySecond == 86399
\* a wall-clock time inside the day, for cooling ends and contract starts
NoonSecond == 43200

TzOffsets == {0, TzOffsetEast}
WallClockTimes == {0, NoonSecond, EndOfDaySecond}

\* calendar.monthrange(year, month)[1] of a non-leap year
MonthDays == <<31, 28, 31, 30, 31, 30, 31, 31, 30, 31, 30, 31>>

RECURSIVE DaysBefore(_)
DaysBefore(m) == IF m <= 1 THEN 0 ELSE DaysBefore(m - 1) + MonthDays[m - 1]

\* the month of a date, and date.replace(day=1) as a month number
MonthOf(d) ==
    CHOOSE m \in 1..12 : DaysBefore(m) < d /\ d <= DaysBefore(m) + MonthDays[m]

MinOf(a, b) == IF a <= b THEN a ELSE b
MaxOf(a, b) == IF a >= b THEN a ELSE b

\* _gear_localize_day: the instant (UTC seconds) of a local day boundary
_gear_localize_day(day, is_end, tz) ==
    (day - 1) * SecondsPerDay + (IF is_end THEN EndOfDaySecond ELSE 0) - tz

\* aware_datetime.date(): the local calendar day of an instant
LocalDate(instant, tz) == ((instant + tz) \div SecondsPerDay) + 1

\* (mutant) the hours of a window without the second added to the difference
compute_hours_NoAddedSecond(start_dt, end_dt) ==
    IF end_dt < start_dt THEN 0
    ELSE MaxOf(end_dt - start_dt, 0)

\* compute_hours, in seconds (3600 = 1.0 hour)
compute_hours(start_dt, end_dt) ==
    IF end_dt < start_dt THEN 0
    ELSE MaxOf((end_dt - start_dt) + 1, 0)

Window(ds, de, ws, we, cooling, md, sd, mh, wh) ==
    [date_start |-> ds, date_end |-> de, window_start |-> ws,
     window_end |-> we, is_cooling |-> cooling, month_days |-> md,
     span_days |-> sd, month_hours |-> mh, window_hours |-> wh]

\* (mutant) the window after the cooling end begins on the cooling end's day
AfterCoolingDate_SameDay(first_end_date) == first_end_date

\* after_cooling_date = first_end_date + timedelta(days=1)
AfterCoolingDate(first_end_date) == first_end_date + 1

\* the body of the while loop for the month m
MonthWindows(m, start_date, end_date, cstart, cooling, tz) ==
    LET month_days == MonthDays[m]
        month_start == DaysBefore(m) + 1
        month_end == DaysBefore(m) + month_days
        window_start == IF month_start >= start_date THEN month_start
                        ELSE start_date
        window_end == IF month_end <= end_date THEN month_end ELSE end_date
        month_start_local == _gear_localize_day(month_start, FALSE, tz)
        month_end_local == _gear_localize_day(month_end, TRUE, tz)
        month_hours == compute_hours(month_start_local, month_end_local)
        midnight_start_local == _gear_localize_day(window_start, FALSE, tz)
        start_local ==
            IF cstart # <<>> /\ LocalDate(cstart[1], tz) = window_start
            THEN MinOf(midnight_start_local, cstart[1])
            ELSE midnight_start_local
        end_local == _gear_localize_day(window_end, TRUE, tz)
        default_span_days == (window_end - window_start) + 1
    IN  IF window_start > window_end THEN <<>>
        ELSE IF /\ cooling # <<>>
                /\ start_local <= cooling[1]
                /\ cooling[1] <= end_local
        THEN
            LET first_end_local == MinOf(cooling[1], end_local)
                first_end_date ==
                    MinOf(window_end, LocalDate(first_end_local, tz))
                first_span_days == (first_end_date - window_start) + 1
                first ==
                    IF first_end_date >= window_start
                    THEN <<Window(window_start, first_end_date, start_local,
                                  first_end_local, TRUE, month_days,
                                  first_span_days, month_hours,
                                  compute_hours(start_local, first_end_local))>>
                    ELSE <<>>
                after_cooling_date == AfterCoolingDate(first_end_date)
                second_start_local ==
                    MaxOf(cooling[1] + 1,
                          _gear_localize_day(after_cooling_date, FALSE, tz))
                second_span_days == (window_end - after_cooling_date) + 1
                second ==
                    IF after_cooling_date <= window_end /\ second_span_days > 0
                    THEN <<Window(after_cooling_date, window_end,
                                  second_start_local, end_local, FALSE,
                                  month_days, second_span_days, month_hours,
                                  compute_hours(second_start_local, end_local))>>
                    ELSE <<>>
            IN  first \o second
        ELSE
            <<Window(window_start, window_end, start_local, end_local,
                     cooling # <<>> /\ end_local <= cooling[1], month_days,
                     default_span_days, month_hours,
                     compute_hours(start_local, end_local))>>

\* the while loop: current = first day of month m, limit = end_date
RECURSIVE IterMonths(_, _, _, _, _, _)
IterMonths(m, start_date, end_date, cstart, cooling, tz) ==
    IF m > 12 \/ DaysBefore(m) + 1 > end_date THEN <<>>
    ELSE MonthWindows(m, start_date, end_date, cstart, cooling, tz)
           \o IterMonths(m + 1, start_date, end_date, cstart, cooling, tz)

\* a date of 0 stands for an unset (False) date field
_gear_iter_monthly_windows(start_date, end_date, cstart, cooling, tz) ==
    IF start_date = 0 \/ end_date = 0 THEN <<>>
    ELSE IterMonths(MonthOf(start_date), start_date, end_date, cstart,
                    cooling, tz)

Days == FirstDay..LastDay

\* x_cooling_end: unset, or any of the wall-clock times of a day around the
\* contract span, stored in UTC
CoolingEnds(tz) ==
    {<<>>} \cup {<<((d - 1) * SecondsPerDay + t) - tz>> :
                    d \in (FirstDay - 1)..(LastDay + 1), t \in WallClockTimes}

\* the contract start datetime: unset, or noon of the contract start date
ContractStarts(start_date, tz) ==
    {<<>>, <<((start_date - 1) * SecondsPerDay + NoonSecond) - tz>>}

InitSplitIdle ==
    /\ total_qty = 0
    /\ max_chunk = 0
    /\ quantities = <<>>
    /\ split_done = FALSE

InitWindows ==
    /\ InitRestIdle
    /\ InitSplitIdle
    /\ InitAgreementIdle
    /\ x_contract_start \in Days
    /\ x_contract_end \in {d \in Days : d >= x_contract_start - 1}
    /\ tz_offset \in TzOffsets
    /\ contract_start_dt \in ContractStarts(x_contract_start, tz_offset)
    /\ x_cooling_end \in CoolingEnds(tz_offset)
    /\ windows = <<>>
    /\ windows_done = FALSE

IterMonthlyWindows ==
    /\ ~windows_done
    /\ windows' = _gear_iter_monthly_windows(x_contract_start, x_contract_end,
                      contract_start_dt, x_cooling_end, tz_offset)
    /\ windows_done' = TRUE
    /\ UNCHANGED <<x_contract_start, x_contract_end, contract_start_dt,
                   x_cooling_end, tz_offset>>
    /\ UNCHANGED splitVars
    /\ UNCHANGED agreementVars
    /\ UNCHANGED restVars

NextWindows == IterMonthlyWindows

SpecWindows == InitWindows /\ [][NextWindows]_vars

-----------------------------------------------------------------------------
(* Claims about the window partitioner (checked under SpecWindows).        *)

\* C10: for a contract start not after the contract end, and any cooling
\* end, the windows are in increasing date order, pairwise non-overlapping
\* and contiguous, and their date ranges cover exactly the span from the
\* contract start to the contract end.
C10_WindowsTileContractSpan ==
    (windows_done /\ x_contract_start <= x_contract_end)
        => /\ Len(windows) >= 1
           /\ windows[1].date_start = x_contract_start
           /\ windows[Len(windows)].date_end = x_contract_end
           /\ \A i \in 1..Len(windows) :
                 windows[i].date_start <= windows[i].date_end
           /\ \A i \in 1..(Len(windows) - 1) :
                 windows[i + 1].date_start = windows[i].date_end + 1

\* C10 witness: a contract over three calendar months whose middle month is
\* split in two at the cooling end.
C10_Witness ==
    /\ windows_done
    /\ Len(windows) = 4
    /\ windows[2].is_cooling
    /\ ~windows[3].is_cooling
    /\ MonthOf(windows[2].date_start) = MonthOf(windows[3].date_end)
    /\ windows[3].date_start = windows[2].date_end + 1

-----------------------------------------------------------------------------
(* The contractor agreement: rmc.contract.agreement                        *)

\* the selection of the field state, in its declared order
States ==
    <<"draft", "offer", "negotiation", "registration", "verification",
      "sign_pending", "active", "suspended", "expired", "closure_review",
      "settled">>

StateSet == {States[i] : i \in 1..Len(States)}

\* two of the three values of the selection contract_type
ContractTypes == {"driver_transport", "pump_ops"}

\* (mutant) the lock forgets the expired agreements
_LOCKED_STATES_WithoutExpired == {"active", "closure_review", "settled"}

_LOCKED_STATES == {"active", "expired", "closure_review", "settled"}

_LOCK_ALWAYS_ALLOWED_FIELDS ==
    {"state", "next_agreement_id", "previous_agreement_id",
     "sign_request_id", "sign_state", "is_agreement_signed", "preview_pdf",
     "preview_pdf_filename", "preview_cache_key",
     "message_main_attachment_id"}

\* the computed fields without inverse, among the fields modelled
_get_lock_allowed_fields ==
    {"payment_hold", "payment_hold_reason"} \cup _LOCK_ALWAYS_ALLOWED_FIELDS

\* no modelled field name starts with message_, activity_ or rating_
_is_field_allowed_on_lock(field_name) ==
    field_name \in _get_lock_allowed_fields

\* TRUE when _check_locked_records_for_write raises UserError
_check_locked_records_for_write(record, vals, bypass) ==
    /\ DOMAIN vals # {}
    /\ ~bypass
    /\ record.state \in _LOCKED_STATES
    /\ \E field_name \in DOMAIN vals : ~_is_field_allowed_on_lock(field_name)

\* is_signed(): the sign request is signed, or a signed document is attached
is_signed == sign_request = "signed" \/ signed_attachment

\* record._origin of a record that is in the database is the record itself
_origin(record) == record

\* TRUE when the constraint on contract_type raises ValidationError
_check_contract_type_immutable(record) ==
    LET immutable == is_signed \/ record.state = "active"
    IN  immutable /\ record.contract_type # _origin(record).contract_type

\* TRUE when the constraint _check_active_overlap raises ValidationError;
\* previous.overlaps says that the previous agreement has the same
\* contractor, analytic account and company, and overlapping validity dates
_check_active_overlap(record, previous) ==
    /\ record.state = "active"
    /\ previous # <<>>
    /\ previous[1].state = "active"
    /\ previous[1].overlaps

Raised(error) == [error |-> error, agreement |-> agreement]
Done(record) == [error |-> "none", agreement |-> record]

Assign(record, vals) ==
    [f \in DOMAIN record |-> IF f \in DOMAIN vals THEN vals[f] ELSE record[f]]

\* _ensure_clause_defaults; templates: clause templates exist for the type
_ensure_clause_defaults(record, bypass, templates) ==
    IF record.contract_type # "pump_ops" THEN Done(record)
    ELSE IF record.clause_ids THEN Done(record)
    ELSE IF ~templates THEN Done(record)
    ELSE IF _check_locked_records_for_write(record, [clause_ids |-> TRUE],
                                            bypass)
         THEN Raised("UserError")
         ELSE Done(Assign(record, [clause_ids |-> TRUE]))

\* write(vals) on the agreement, with the constraints of the written fields
write(record, vals, bypass, templates) ==
    IF _check_locked_records_for_write(record, vals, bypass)
    THEN Raised("UserError")
    ELSE
        LET written == Assign(record, vals)
        IN  IF /\ DOMAIN vals \cap {"state", "validity_start",
                                    "validity_end"} # {}
               /\ _check_active_overlap(written, previous_agreement_id)
            THEN Raised("ValidationError")
            ELSE IF /\ "contract_type" \in DOMAIN vals
                    /\ _check_contract_type_immutable(written)
            THEN Raised("ValidationError")
            ELSE IF "contract_type" \in DOMAIN vals
            THEN _ensure_clause_defaults(written, bypass, templates)
            ELSE Done(written)

\* the outcome of a call: its changes are kept only if nothing was raised
Outcome(op, result) ==
    /\ lastOp' = op
    /\ lastError' = result.error
    /\ agreement' = result.agreement

closureData ==
    <<breakdown_event_ids, inventory_handover_ids, wizard, account_moves>>

\* agreement.with_context(...).write(vals)
Write(vals, bypass, templates) ==
    /\ Outcome("write", write(agreement, vals, bypass, templates))
    /\ UNCHANGED <<sign_request, signed_attachment, previous_agreement_id>>
    /\ UNCHANGED closureData
    /\ UNCHANGED calcVars

\* action_send_for_sign: _create_sign_request(allow_existing=True);
\* setup_ok: a sign template with signer roles and partners is configured
action_send_for_sign(setup_ok) ==
    /\ lastOp' = "action_send_for_sign"
    /\ IF ~setup_ok
       THEN /\ lastError' = "UserError"
            /\ UNCHANGED <<agreement, sign_request>>
       ELSE IF sign_request # "none"
       THEN /\ lastError' = IF sign_request = "signed" THEN "UserError"
                            ELSE "none"
            /\ UNCHANGED <<agreement, sign_request>>
       ELSE /\ lastError' = "none"
            /\ sign_request' = "sent"
            /\ agreement' = Assign(agreement, [state |-> "sign_pending"])
    /\ UNCHANGED <<signed_attachment, previous_agreement_id>>
    /\ UNCHANGED closureData
    /\ UNCHANGED calcVars

\* the Sign app completes the request (sign.request.state = 'signed')
SignRequestSigned ==
    /\ sign_request = "sent"
    /\ sign_request' = "signed"
    /\ lastOp' = "sign"
    /\ lastError' = "none"
    /\ UNCHANGED <<agreement, signed_attachment, previous_agreement_id>>
    /\ UNCHANGED closureData
    /\ UNCHANGED calcVars

\* a document whose name contains 'signed' is attached to the agreement
AttachSignedDocument ==
    /\ ~signed_attachment
    /\ signed_attachment' = TRUE
    /\ lastOp' = "attach"
    /\ lastError' = "none"
    /\ UNCHANGED <<agreement, sign_request, previous_agreement_id>>
    /\ UNCHANGED closureData
    /\ UNCHANGED calcVars

\* (mutant) the activation accepts any linked sign request as a signature
ActivationGuard_AnyRequest == sign_request = "none" /\ ~signed_attachment

\* TRUE when action_activate_on_sign refuses: if not self.is_signed()
ActivationGuard == ~is_signed

\* the writes of action_activate_on_sign on the agreement itself
ActivateWrites(bypass) ==
    IF ActivationGuard THEN Raised("UserError")
    ELSE
        LET r1 == write(agreement, [state |-> "active"], bypass, FALSE)
            r2 == IF r1.error = "none" /\ ~r1.agreement.validity_start
                  THEN write(r1.agreement, [validity_start |-> TRUE],
                             bypass, FALSE)
                  ELSE r1
            r3 == IF r2.error = "none" /\ ~r2.agreement.validity_end
                  THEN write(r2.agreement, [validity_end |-> TRUE],
                             bypass, FALSE)
                  ELSE r2
        IN  r3

\* previous.with_context(bypass).write({'state': 'expired',
\*                                      'next_agreement_id': self.id})
SupersedePrevious(previous) ==
    IF previous = <<>> THEN previous
    ELSE <<[previous[1] EXCEPT !.state = "expired",
                               !.next_agreement_id = TRUE]>>

action_activate_on_sign(bypass) ==
    LET result == ActivateWrites(bypass)
    IN  /\ Outcome("action_activate_on_sign", result)
        /\ previous_agreement_id' =
              IF result.error = "none"
              THEN SupersedePrevious(previous_agreement_id)
              ELSE previous_agreement_id
        /\ UNCHANGED <<sign_request, signed_attachment>>
        /\ UNCHANGED closureData
        /\ UNCHANGED calcVars

\* (mutant) closure may also start while the signature is pending
ClosureStartStates_WithSignPending == {"sign_pending", "active", "expired"}

\* if agreement.state not in ('active', 'expired'): raise
ClosureStartStates == {"active", "expired"}

action_start_closure ==
    /\ Outcome("action_start_closure",
               IF agreement.state \notin ClosureStartStates
               THEN Raised("ValidationError")
               ELSE write(agreement, [state |-> "closure_review"], FALSE,
                          FALSE))
    /\ UNCHANGED <<sign_request, signed_attachment, previous_agreement_id>>
    /\ UNCHANGED closureData
    /\ UNCHANGED calcVars

\* the values written by the calls of the life cycle
MgqTargets == {1000, 1500}
StateVals == {[state |-> s] : s \in StateSet}
TypeVals == {[contract_type |-> c] : c \in ContractTypes}
MgqVals == {[mgq_target |-> m] : m \in MgqTargets}
TypeAndStateVals ==
    {[contract_type |-> c, state |-> s] :
        c \in ContractTypes, s \in {"draft", "active"}}

\* a previous agreement of the same contractor, when the agreement is a
\* renewal
PreviousAgreements ==
    {<<>>} \cup {<<[state |-> s, overlaps |-> o, next_agreement_id |-> FALSE]>> :
                    s \in {"active", "expired"}, o \in BOOLEAN}

InitLifecycle ==
    /\ InitRestIdle
    /\ InitSplitIdle
    /\ InitWindowsIdle
    /\ \E vs \in BOOLEAN, ve \in BOOLEAN :
          agreement = [NewAgreement EXCEPT !.validity_start = vs,
                                           !.validity_end = ve]
    /\ sign_request = "none"
    /\ signed_attachment = FALSE
    /\ previous_agreement_id \in PreviousAgreements
    /\ breakdown_event_ids = <<>>
    /\ inventory_handover_ids = <<>>
    /\ wizard = <<>>
    /\ account_moves = {}
    /\ lastOp = "none"
    /\ lastError = "none"

NextLifecycle ==
    \/ \E vals \in StateVals, bypass \in BOOLEAN :
          Write(vals, bypass, FALSE)
    \/ \E vals \in TypeVals \cup TypeAndStateVals, bypass \in BOOLEAN,
          templates \in BOOLEAN :
          Write(vals, bypass, templates)
    \/ \E vals \in MgqVals, bypass \in BOOLEAN :
          Write(vals, bypass, FALSE)
    \/ \E setup_ok \in BOOLEAN : action_send_for_sign(setup_ok)
    \/ SignRequestSigned
    \/ AttachSignedDocument
    \/ \E bypass \in BOOLEAN : action_activate_on_sign(bypass)
    \/ action_start_closure

SpecLifecycle == InitLifecycle /\ [][NextLifecycle]_vars

-----------------------------------------------------------------------------
(* Claims about the life cycle and the write lock (under SpecLifecycle).   *)

\* C4 as stated: an agreement goes from sign_pending to active only when a
\* signed confirmation exists for it (a signed sign request or a signed
\* document attached).
C4_SignPendingToActiveOnlyWhenSigned ==
    [][(agreement.state = "sign_pending" /\ agreement'.state = "active")
          => (sign_request = "signed" \/ signed_attachment)]_vars

\* C4 amended: a call of action_activate_on_sign changes the state of the
\* agreement only to active and only when a signed confirmation exists;
\* called without one it raises a UserError and leaves the agreement as it
\* was.
C4_ActivationRequiresSignature ==
    [][lastOp' = "action_activate_on_sign"
          => /\ agreement'.state # agreement.state
                  => /\ agreement'.state = "active"
                     /\ (sign_request = "signed" \/ signed_attachment)
             /\ ~(sign_request = "signed" \/ signed_attachment)
                  => /\ lastError' = "UserError"
                     /\ agreement' = agreement]_vars

\* C4 witness: an activation of an agreement waiting for its signature was
\* refused.
C4_Witness ==
    /\ lastOp = "action_activate_on_sign"
    /\ lastError = "UserError"
    /\ agreement.state = "sign_pending"
    /\ sign_request = "sent"
    /\ ~signed_attachment

\* C5: a write of a contractual field (mgq_target, contract_type) on an
\* active or expired agreement raises a UserError and changes nothing,
\* unless it carries the lock-bypass context key; then it succeeds and the
\* field has the written value.
C5_LockedWriteNeedsBypass ==
    [][\A vals \in TypeVals \cup MgqVals, bypass \in BOOLEAN,
          templates \in BOOLEAN :
          (/\ lastOp' = "write"
           /\ agreement.state \in {"active", "expired"}
           /\ Write(vals, bypass, templates))
            => IF bypass
               THEN /\ lastError' = "none"
                    /\ \A f \in DOMAIN vals : agreement'[f] = vals[f]
               ELSE /\ lastError' = "UserError"
                    /\ agreement' = agreement]_vars

\* C5 witness: a write on an expired agreement was refused by the lock.
C5_Witness ==
    /\ lastOp = "write"
    /\ lastError = "UserError"
    /\ agreement.state = "expired"

\* C6: once the agreement is signed or active, a write that changes its
\* contract_type is rejected with a ValidationError and the contract_type
\* keeps its value.
C6_ContractTypeImmutableAfterSign ==
    [][\A vals \in TypeVals, bypass \in BOOLEAN, templates \in BOOLEAN :
          (/\ lastOp' = "write"
           /\ vals.contract_type # agreement.contract_type
           /\ \/ sign_request = "signed"
              \/ signed_attachment
              \/ agreement.state = "active"
           /\ Write(vals, bypass, templates))
            => /\ lastError' = "ValidationError"
               /\ agreement'.contract_type = agreement.contract_type]_vars

-----------------------------------------------------------------------------
(* Closure and settlement: the records around the agreement, the           *)
(* settlement blockers and the settlement wizard.                          *)

\* an rmc.breakdown.event of the agreement
BreakdownEvent(responsibility) ==
    [responsibility |-> responsibility, state |-> "open",
     settlement_included |-> FALSE]

\* an rmc.inventory.handover of the agreement, as created (state draft);
\* variance: variance_value or damage_cost is not zero
InventoryHandover(is_final, variance) ==
    [state |-> "draft", is_final |-> is_final, variance |-> variance,
     acknowledged |-> FALSE, settlement_included |-> FALSE]

\* (mutant) the blockers leave the breakdown events out
_get_settlement_blockers_NoBreakdowns(inventory_records) ==
    (IF ~is_signed THEN {"not signed"} ELSE {})
    \cup (IF \E i \in 1..Len(inventory_handover_ids) :
               inventory_handover_ids[i].state \in {"draft", "issued"}
          THEN {"inventory"} ELSE {})
    \cup (IF \E i \in 1..Len(inventory_records) :
               /\ inventory_records[i].is_final
               /\ ~inventory_records[i].acknowledged
               /\ inventory_records[i].variance
          THEN {"final handback"} ELSE {})

\* _get_settlement_blockers: the set of blocking reasons
_get_settlement_blockers(inventory_records) ==
    (IF ~is_signed THEN {"not signed"} ELSE {})
    \cup (IF \E i \in 1..Len(breakdown_event_ids) :
               /\ breakdown_event_ids[i].responsibility = "contractor"
               /\ \/ breakdown_event_ids[i].state # "closed"
                  \/ ~breakdown_event_ids[i].settlement_included
          THEN {"breakdown"} ELSE {})
    \cup (IF \E i \in 1..Len(inventory_handover_ids) :
               inventory_handover_ids[i].state \in {"draft", "issued"}
          THEN {"inventory"} ELSE {})
    \cup (IF \E i \in 1..Len(inventory_records) :
               /\ inventory_records[i].is_final
               /\ ~inventory_records[i].acknowledged
               /\ inventory_records[i].variance
          THEN {"final handback"} ELSE {})

\* the records a wizard holds by id, read as they are now
WizardInventory(w) ==
    IF w.inventory_handover_ids THEN inventory_handover_ids ELSE <<>>

\* (mutant) the reasons are computed but the hold flag is left as it was
_evaluate_hold_state_KeepsFlag(w) == w

\* _evaluate_hold_state: hold_detected = bool(reasons)
_evaluate_hold_state(w) ==
    [w EXCEPT !.hold_detected =
        _get_settlement_blockers(WizardInventory(w)) # {}]

\* _load_breakdown_records and _load_inventory_records: the searches
_prefill_financials ==
    [breakdown_event_ids |->
        \E i \in 1..Len(breakdown_event_ids) :
            /\ breakdown_event_ids[i].responsibility = "contractor"
            /\ ~breakdown_event_ids[i].settlement_included,
     inventory_handover_ids |->
        \E i \in 1..Len(inventory_handover_ids) :
            /\ inventory_handover_ids[i].state # "reconciled"
            /\ ~inventory_handover_ids[i].settlement_included,
     hold_detected |-> FALSE]

\* _perform_financial_action: the error it raises, or "none"; amount is the
\* sign of final_payable_amount
FinancialError(proposed_action, amount, expense_account) ==
    IF proposed_action = "zero_balance"
    THEN IF amount # 0 THEN "ValidationError" ELSE "none"
    ELSE IF proposed_action = "final_bill" /\ amount <= 0
    THEN "ValidationError"
    ELSE IF proposed_action = "credit_note" /\ amount >= 0
    THEN "ValidationError"
    ELSE IF ~expense_account THEN "ValidationError"
    ELSE "none"

\* the move types it has created, after a call that raised nothing
FinancialMoves(proposed_action) ==
    IF proposed_action = "zero_balance" THEN {}
    ELSE IF proposed_action = "final_bill" THEN {"in_invoice"}
    ELSE {"in_refund"}

\* _mark_consumed_records
MarkConsumed(records, included) ==
    IF included
    THEN [i \in 1..Len(records) |->
             [records[i] EXCEPT !.settlement_included = TRUE]]
    ELSE records

\* the writes of action_confirm on the agreement, or the error it raises
ConfirmWrites(w, bypass, proposed_action, amount, expense_account) ==
    IF agreement.state # "closure_review" THEN Raised("ValidationError")
    ELSE IF _evaluate_hold_state(w).hold_detected
    THEN LET held == write(agreement, [settlement_hold |-> TRUE], bypass,
                           FALSE)
         IN  IF held.error # "none" THEN held
             ELSE Raised("ValidationError")
    ELSE LET released == write(agreement, [settlement_hold |-> FALSE],
                               bypass, FALSE)
         IN  IF released.error # "none" THEN released
             ELSE IF FinancialError(proposed_action, amount,
                                    expense_account) # "none"
             THEN Raised("ValidationError")
             ELSE write(released.agreement, [state |-> "settled"], bypass,
                        FALSE)

lifecycleData == <<sign_request, signed_attachment, previous_agreement_id>>

\* rmc.agreement.settlement.wizard.create(): create, then _prefill_financials
WizardCreate ==
    /\ wizard' = <<_evaluate_hold_state(_prefill_financials)>>
    /\ lastOp' = "wizard_create"
    /\ lastError' = "none"
    /\ UNCHANGED <<agreement, breakdown_event_ids, inventory_handover_ids,
                   account_moves>>
    /\ UNCHANGED lifecycleData
    /\ UNCHANGED calcVars

\* wizard.action_confirm(); the form's proposed_action, the sign of the
\* final payable amount and the presence of an expense account are inputs
action_confirm(bypass, proposed_action, amount, expense_account) ==
    /\ wizard # <<>>
    /\ LET result == ConfirmWrites(wizard[1], bypass, proposed_action,
                                   amount, expense_account)
           done == result.error = "none"
       IN  /\ Outcome("action_confirm", result)
           /\ wizard' = IF done THEN <<_evaluate_hold_state(wizard[1])>>
                        ELSE wizard
           /\ account_moves' =
                 IF done
                 THEN account_moves \cup FinancialMoves(proposed_action)
                 ELSE account_moves
           /\ breakdown_event_ids' =
                 IF done
                 THEN MarkConsumed(breakdown_event_ids,
                                   wizard[1].breakdown_event_ids)
                 ELSE breakdown_event_ids
           /\ inventory_handover_ids' =
                 IF done
                 THEN MarkConsumed(inventory_handover_ids,
                                   wizard[1].inventory_handover_ids)
                 ELSE inventory_handover_ids
    /\ UNCHANGED lifecycleData
    /\ UNCHANGED calcVars

\* rmc.inventory.handover.create()
InventoryCreate(is_final, variance) ==
    /\ inventory_handover_ids = <<>>
    /\ inventory_handover_ids' = <<InventoryHandover(is_final, variance)>>
    /\ lastOp' = "inventory_create"
    /\ lastError' = "none"
    /\ UNCHANGED <<agreement, breakdown_event_ids, wizard, account_moves>>
    /\ UNCHANGED lifecycleData
    /\ UNCHANGED calcVars

\* action_issue, action_return and monthly_reconcile_inventory write the
\* state of the handover, whatever it was
InventorySetState(op, state) ==
    /\ inventory_handover_ids # <<>>
    /\ inventory_handover_ids[1].state # state
    /\ inventory_handover_ids' =
          <<[inventory_handover_ids[1] EXCEPT !.state = state]>>
    /\ lastOp' = op
    /\ lastError' = "none"
    /\ UNCHANGED <<agreement, breakdown_event_ids, wizard, account_moves>>
    /\ UNCHANGED lifecycleData
    /\ UNCHANGED calcVars

action_issue == InventorySetState("action_issue", "issued")

action_return == InventorySetState("action_return", "returned")

monthly_reconcile_inventory ==
    InventorySetState("monthly_reconcile_inventory", "reconciled")

\* handover.write({'acknowledged_by': user, 'ack_signature': signature})
InventoryAcknowledge ==
    /\ inventory_handover_ids # <<>>
    /\ ~inventory_handover_ids[1].acknowledged
    /\ inventory_handover_ids' =
          <<[inventory_handover_ids[1] EXCEPT !.acknowledged = TRUE]>>
    /\ lastOp' = "inventory_acknowledge"
    /\ lastError' = "none"
    /\ UNCHANGED <<agreement, breakdown_event_ids, wizard, account_moves>>
    /\ UNCHANGED lifecycleData
    /\ UNCHANGED calcVars

_check_closure_operation_allowed_ReviewOnly(privileged) ==
    agreement.state = "closure_review" /\ ~privileged

\* TRUE when _check_closure_operation_allowed raises ValidationError
_check_closure_operation_allowed(privileged) ==
    agreement.state \in {"closure_review", "settled"} /\ ~privileged

\* rmc.breakdown.event.create(), refused during closure
BreakdownCreate(responsibility, privileged) ==
    /\ breakdown_event_ids = <<>>
    /\ lastOp' = "breakdown_create"
    /\ IF _check_closure_operation_allowed(privileged)
       THEN /\ lastError' = "ValidationError"
            /\ UNCHANGED breakdown_event_ids
       ELSE /\ lastError' = "none"
            /\ breakdown_event_ids' = <<BreakdownEvent(responsibility)>>
    /\ UNCHANGED <<agreement, inventory_handover_ids, wizard, account_moves>>
    /\ UNCHANGED lifecycleData
    /\ UNCHANGED calcVars

\* the breakdown event is closed
BreakdownClose ==
    /\ breakdown_event_ids # <<>>
    /\ breakdown_event_ids[1].state # "closed"
    /\ breakdown_event_ids' =
          <<[breakdown_event_ids[1] EXCEPT !.state = "closed"]>>
    /\ lastOp' = "breakdown_close"
    /\ lastError' = "none"
    /\ UNCHANGED <<agreement, inventory_handover_ids, wizard, account_moves>>
    /\ UNCHANGED lifecycleData
    /\ UNCHANGED calcVars

ProposedActions == {"zero_balance", "final_bill", "credit_note"}
AmountSigns == {0 - 1, 0, 1}

\* the direct writes of the state field made around a closure
ClosureStateVals == {[state |-> s] : s \in {"active", "expired"}}

InitClosure ==
    /\ InitRestIdle
    /\ InitSplitIdle
    /\ InitWindowsIdle
    /\ InitAgreementIdle

NextClosure ==
    \/ \E vals \in ClosureStateVals : Write(vals, FALSE, FALSE)
    \/ action_send_for_sign(TRUE)
    \/ SignRequestSigned
    \/ \E bypass \in BOOLEAN : action_activate_on_sign(bypass)
    \/ action_start_closure
    \/ \E responsibility \in {"contractor", "company"},
          privileged \in BOOLEAN :
          BreakdownCreate(responsibility, privileged)
    \/ BreakdownClose
    \/ \E is_final \in BOOLEAN, variance \in BOOLEAN :
          InventoryCreate(is_final, variance)
    \/ action_issue
    \/ action_return
    \/ monthly_reconcile_inventory
    \/ InventoryAcknowledge
    \/ WizardCreate
    \/ \E bypass \in BOOLEAN, proposed_action \in ProposedActions,
          amount \in AmountSigns, expense_account \in BOOLEAN :
          action_confirm(bypass, proposed_action, amount, expense_account)

SpecClosure == InitClosure /\ [][NextClosure]_vars

-----------------------------------------------------------------------------
(* Claims about closure and settlement (checked under SpecClosure).        *)

\* C1: a settlement confirm on an agreement in closure_review that has an
\* open contractor-fault breakdown event raises an error, and the agreement
\* is still in closure_review afterwards.
C1_ConfirmRefusedOnOpenContractorBreakdown ==
    [][(/\ lastOp' = "action_confirm"
        /\ agreement.state = "closure_review"
        /\ \E i \in 1..Len(breakdown_event_ids) :
              /\ breakdown_event_ids[i].responsibility = "contractor"
              /\ breakdown_event_ids[i].state # "closed")
          => /\ lastError' # "none"
             /\ agreement'.state = "closure_review"]_vars

\* C1 witness: a confirm was refused with a validation error on a signed
\* agreement without inventory, whose only blocker is an open
\* contractor-fault breakdown.
C1_Witness ==
    /\ lastOp = "action_confirm"
    /\ lastError = "ValidationError"
    /\ agreement.state = "closure_review"
    /\ sign_request = "signed"
    /\ inventory_handover_ids = <<>>
    /\ breakdown_event_ids # <<>>
    /\ breakdown_event_ids[1].responsibility = "contractor"
    /\ breakdown_event_ids[1].state = "open"

Stage(s) ==
    IF s = "expired" THEN 8
    ELSE IF s \in {"closure_review", "settled"}
    THEN (CHOOSE i \in 1..Len(States) : States[i] = s) - 1
    ELSE CHOOSE i \in 1..Len(States) : States[i] = s

\* C3 as stated: every change of an agreement's state goes from a state to
\* the next one in the sequence.
C3_StateMovesToNextInSequence ==
    [][agreement'.state # agreement.state
          => Stage(agreement'.state) = Stage(agreement.state) + 1]_vars

\* C3 amended: the workflow actions change the state as follows: preparing
\* the sign request only to sign_pending, action_activate_on_sign only to
\* active, action_start_closure only from active or expired to
\* closure_review, and the settlement confirm only from closure_review to
\* settled.
C3_WorkflowActionsTargets ==
    [][agreement'.state # agreement.state
          => /\ lastOp' = "action_send_for_sign"
                  => agreement'.state = "sign_pending"
             /\ lastOp' = "action_activate_on_sign"
                  => agreement'.state = "active"
             /\ lastOp' = "action_start_closure"
                  => /\ agreement.state \in {"active", "expired"}
                     /\ agreement'.state = "closure_review"
             /\ lastOp' = "action_confirm"
                  => /\ agreement.state = "closure_review"
                     /\ agreement'.state = "settled"]_vars

\* C3 witness: action_start_closure has moved an agreement to
\* closure_review.
C3_Witness ==
    /\ lastOp = "action_start_closure"
    /\ lastError = "none"
    /\ agreement.state = "closure_review"

-----------------------------------------------------------------------------
(* Monthly orders and their prorated target: gear.rmc.monthly.order        *)

\* the contract's monthly MGQ of the invoice tests
MonthlyMgq == 240
MgqValues == {0, MonthlyMgq}

\* a quantity num / den with den > 0 (the floats of the source, exactly)
Rat(n, d) == [num |-> n, den |-> d]
LeqRat(a, b) == a.num * b.den <= b.num * a.den

\* gear_generate_monthly_orders: ratio and snapshot of one window
WindowSnapshot(mgq_total, window) ==
    LET ratio ==
            IF window.month_hours # 0
            THEN Rat(window.window_hours, window.month_hours)
            ELSE IF window.month_days # 0
            THEN Rat(window.span_days, window.month_days)
            ELSE Rat(1, 1)
    IN  IF mgq_total # 0 THEN Rat(mgq_total * ratio.num, ratio.den)
        ELSE Rat(0, 1)

\* datetime.combine(day, time.min) and (day, time(23, 59, 59)), naive
NaiveStart(day) == (day - 1) * SecondsPerDay
NaiveEnd(day) == (day - 1) * SecondsPerDay + EndOfDaySecond

_gear_get_window_hours(order) ==
    LET start == IF order.x_window_start # <<>> THEN order.x_window_start[1]
                 ELSE NaiveStart(order.date_start)
        end == IF order.x_window_end # <<>> THEN order.x_window_end[1]
               ELSE NaiveEnd(order.date_end)
    IN  compute_hours(start, end)

_gear_get_month_hours(order) ==
    LET m == MonthOf(order.date_start)
    IN  compute_hours(NaiveStart(DaysBefore(m) + 1),
                      NaiveEnd(DaysBefore(m) + MonthDays[m]))

_gear_get_window_days(order) ==
    IF order.date_end < order.date_start THEN 0
    ELSE (order.date_end - order.date_start) + 1

_gear_get_month_days(order) == MonthDays[MonthOf(order.date_start)]

\* (mutant) the ratio is used as computed
Clamp01_NoClamp(ratio) == ratio

\* ratio = max(min(ratio, 1.0), 0.0)
Clamp01(ratio) ==
    IF ratio.num > ratio.den THEN Rat(1, 1)
    ELSE IF ratio.num < 0 THEN Rat(0, 1)
    ELSE ratio

\* _gear_get_prorated_mgq, with base_mgq = contract.x_monthly_mgq
_gear_get_prorated_mgq(order, base_mgq) ==
    LET month_hours == _gear_get_month_hours(order)
        window_hours == _gear_get_window_hours(order)
        ratio ==
            IF month_hours # 0
            THEN IF window_hours # 0 THEN Rat(window_hours, month_hours)
                 ELSE Rat(0, 1)
            ELSE IF _gear_get_month_days(order) # 0
            THEN Rat(_gear_get_window_days(order),
                     _gear_get_month_days(order))
            ELSE Rat(0, 1)
        clamped == Clamp01(ratio)
    IN  IF base_mgq # 0 THEN Rat(base_mgq * clamped.num, clamped.den)
        ELSE IF order.x_monthly_mgq_snapshot.num # 0
        THEN order.x_monthly_mgq_snapshot
        ELSE Rat(0, 1)

\* _compute_monthly_target_qty, the stored compute of monthly_target_qty
_compute_monthly_target_qty(orders, base_mgq) ==
    [i \in 1..Len(orders) |->
        [orders[i] EXCEPT
            !.monthly_target_qty = _gear_get_prorated_mgq(orders[i], base_mgq)]]

\* the vals gear_generate_monthly_orders writes for a window
MonthlyOrderVals(mgq_total, window) ==
    [date_start |-> window.date_start,
     date_end |-> window.date_end,
     x_window_start |-> <<window.window_start>>,
     x_window_end |-> <<window.window_end>>,
     x_is_cooling_period |-> window.is_cooling,
     x_monthly_mgq_snapshot |-> WindowSnapshot(mgq_total, window),
     monthly_target_qty |-> Rat(0, 1)]

\* MonthlyOrder.search([so_id, date_start], limit=1): its index, or 0
SearchMonthlyOrder(orders, date_start) ==
    IF \E i \in 1..Len(orders) : orders[i].date_start = date_start
    THEN CHOOSE i \in 1..Len(orders) :
            /\ orders[i].date_start = date_start
            /\ \A j \in 1..(i - 1) : orders[j].date_start # date_start
    ELSE 0

\* if monthly: monthly.write(vals) else: MonthlyOrder.create(vals)
UpsertMonthlyOrder(orders, vals) ==
    LET found == SearchMonthlyOrder(orders, vals.date_start)
    IN  IF found # 0 THEN [orders EXCEPT ![found] = vals]
        ELSE Append(orders, vals)

\* for window in filtered_windows: ...
RECURSIVE UpsertWindows(_, _, _, _)
UpsertWindows(orders, mgq_total, ws, k) ==
    IF k > Len(ws) THEN orders
    ELSE UpsertWindows(
             UpsertMonthlyOrder(orders, MonthlyOrderVals(mgq_total, ws[k])),
             mgq_total, ws, k + 1)

agreementData ==
    <<agreement, sign_request, signed_attachment, previous_agreement_id,
      breakdown_event_ids, inventory_handover_ids, wizard, account_moves>>

\* gear_generate_monthly_orders(limit=limit) on the contract; limit 0 stands
\* for None
gear_generate_monthly_orders(limit) ==
    /\ lastOp' = (IF limit = 0 THEN "gear_generate_monthly_orders"
                  ELSE "gear_generate_monthly_orders(limit=1)")
    /\ lastError' = "none"
    /\ LET all == _gear_iter_monthly_windows(x_contract_start,
                      x_contract_end, contract_start_dt, x_cooling_end,
                      tz_offset)
           filtered_windows ==
               IF limit # 0 THEN SubSeq(all, 1, MinOf(limit, Len(all)))
               ELSE all
       IN  monthly_orders' =
              IF \/ x_contract_start = 0
                 \/ x_contract_end = 0
                 \/ x_monthly_mgq <= 0
              THEN monthly_orders
              ELSE _compute_monthly_target_qty(
                       UpsertWindows(monthly_orders, x_monthly_mgq,
                                     filtered_windows, 1),
                       x_monthly_mgq)
    /\ job_rerun' = (lastOp = lastOp')
    /\ UNCHANGED <<x_monthly_mgq, splitVars, windowVars, agreementData,
                   miscVars, syncData>>

\* the contract's monthly MGQ is edited; the stored targets are recomputed
WriteMonthlyMgq(value) ==
    /\ value # x_monthly_mgq
    /\ x_monthly_mgq' = value
    /\ monthly_orders' = _compute_monthly_target_qty(monthly_orders, value)
    /\ lastOp' = "write_monthly_mgq"
    /\ lastError' = "none"
    /\ job_rerun' = FALSE
    /\ UNCHANGED <<splitVars, windowVars, agreementData, miscVars,
                   syncData>>

\* x_window_start of a monthly order is edited; its target is recomputed
WriteWindowStart(i, value) ==
    /\ i \in 1..Len(monthly_orders)
    /\ monthly_orders[i].x_window_start # value
    /\ monthly_orders' =
          _compute_monthly_target_qty(
              [monthly_orders EXCEPT ![i].x_window_start = value],
              x_monthly_mgq)
    /\ lastOp' = "write_window_start"
    /\ lastError' = "none"
    /\ job_rerun' = FALSE
    /\ UNCHANGED <<x_monthly_mgq, splitVars, windowVars, agreementData,
                   miscVars, syncData>>

\* the contracts of the proration runs: from the end of January or the
\* start of February to the end of February or the start of March
ContractStartDays == {FirstDay, FirstDay + 2}
ContractEndDays == {LastDay - 1, LastDay}
MaxMonthlyOrders == 4

\* a contract without monthly orders
InitContract ==
    /\ x_contract_start \in ContractStartDays
    /\ x_contract_end \in ContractEndDays
    /\ tz_offset \in TzOffsets
    /\ contract_start_dt = <<>>
    /\ x_cooling_end \in
          {<<>>, <<((FirstDay + 14) * SecondsPerDay + NoonSecond) - tz_offset>>}
    /\ windows = <<>>
    /\ windows_done = FALSE
    /\ x_monthly_mgq \in MgqValues
    /\ monthly_orders = <<>>

InitOrders ==
    /\ InitSplitIdle
    /\ InitMiscIdle
    /\ InitSyncIdle
    /\ InitAgreementIdle
    /\ InitContract

NextOrders ==
    \/ \E limit \in {0, 1} : gear_generate_monthly_orders(limit)
    \/ \E value \in MgqValues : WriteMonthlyMgq(value)
    \/ \E i \in 1..MaxMonthlyOrders, value \in {<<>>, <<0>>} :
          WriteWindowStart(i, value)

SpecOrders == InitOrders /\ [][NextOrders]_vars

-----------------------------------------------------------------------------
(* Claims about the prorated target (checked under SpecOrders).            *)

\* C11 as stated: the prorated target of a monthly order never exceeds the
\* contract's monthly MGQ.
C11_TargetNeverExceedsMonthlyMgq ==
    \A i \in 1..Len(monthly_orders) :
        LeqRat(monthly_orders[i].monthly_target_qty, Rat(x_monthly_mgq, 1))

\* C11 amended: while the contract has a positive monthly MGQ, the prorated
\* target of every monthly order is between 0 and the monthly MGQ, also
\* when the order's window is longer than its month; when the contract has
\* no monthly MGQ the target is the snapshot stored on the order.  The
\* snapshot written by the generation is between 0 and the monthly MGQ of
\* that time.
C11_TargetWithinMonthlyMgqWhenPositive ==
    \A i \in 1..Len(monthly_orders) :
        /\ x_monthly_mgq > 0
              => /\ LeqRat(Rat(0, 1), monthly_orders[i].monthly_target_qty)
                 /\ LeqRat(monthly_orders[i].monthly_target_qty,
                           Rat(x_monthly_mgq, 1))
        /\ x_monthly_mgq = 0
              => monthly_orders[i].monthly_target_qty =
                    monthly_orders[i].x_monthly_mgq_snapshot
        /\ LeqRat(Rat(0, 1), monthly_orders[i].x_monthly_mgq_snapshot)
        /\ LeqRat(monthly_orders[i].x_monthly_mgq_snapshot,
                  Rat(MonthlyMgq, 1))

\* C11 witness: an order whose window was made longer than its month has
\* the whole monthly MGQ as its target.
C11_Witness ==
    /\ x_monthly_mgq > 0
    /\ \E i \in 1..Len(monthly_orders) :
          /\ monthly_orders[i].x_window_start = <<0>>
          /\ monthly_orders[i].monthly_target_qty = Rat(1 * x_monthly_mgq, 1)

-----------------------------------------------------------------------------
(* The retention release date (agreement.py, _get_retention_release_date). *)
(* A date is a record of year, month and day of the proleptic Gregorian    *)
(* calendar, as Python's datetime.date.                                    *)

Date(y, m, d) == [year |-> y, month |-> m, day |-> d]

IsLeapYear_Never(y) == FALSE

IsLeapYear(y) == y % 4 = 0 /\ (y % 100 # 0 \/ y % 400 = 0)

DaysInMonth(y, m) ==
    IF m = 2 THEN (IF IsLeapYear(y) THEN 29 ELSE 28)
    ELSE IF m \in {4, 6, 9, 11} THEN 30
    ELSE 31

\* the days of the year y before the first of month m
RECURSIVE DaysBeforeMonth(_, _)
DaysBeforeMonth(y, m) ==
    IF m = 1 THEN 0 ELSE DaysBeforeMonth(y, m - 1) + DaysInMonth(y, m - 1)

\* the days from the first of January of year epoch to the first of
\* January of year y
RECURSIVE DaysBeforeYear(_, _)
DaysBeforeYear(epoch, y) ==
    IF y <= epoch THEN 0
    ELSE DaysBeforeYear(epoch, y - 1)
         + (IF IsLeapYear(y - 1) THEN 366 ELSE 365)

\* date.toordinal(), counted from the first of January of year epoch
toordinal(epoch, date) ==
    DaysBeforeYear(epoch, date.year) + DaysBeforeMonth(date.year, date.month)
    + date.day

DatesOfYears(years) ==
    {Date(y, m, d) : y \in years, m \in 1..12, d \in 1..31}

\* date + timedelta(days=n), n >= 0
AddDays(date, n) ==
    CHOOSE r \in DatesOfYears(date.year .. date.year + (n \div 365) + 1) :
        /\ r.day <= DaysInMonth(r.year, r.month)
        /\ toordinal(date.year, r) = toordinal(date.year, date) + n

\* date + relativedelta(years=years, months=months): the month and the year
\* are moved and the day is cut to the last day of the resulting month
AddRelativeDelta(date, years, months) ==
    LET total == (date.month - 1) + months
        y == date.year + years + (total \div 12)
        m == (total % 12) + 1
    IN  Date(y, m, MinOf(date.day, DaysInMonth(y, m)))

ReferenceDate(b, today) ==
    IF b.invoice_date_due # <<>> THEN b.invoice_date_due[1]
    ELSE IF b.invoice_date # <<>> THEN b.invoice_date[1]
    ELSE today[1]

_get_retention_release_date(agr, b, today) ==
    LET reference_date == ReferenceDate(b, today)
        duration == IF agr.retention_duration # "" THEN agr.retention_duration
                    ELSE "90_days"
    IN  IF duration = "90_days" THEN AddDays(reference_date, 90)
        ELSE IF duration = "6_months"
             THEN AddRelativeDelta(reference_date, 0, 6)
        ELSE IF duration = "1_year"
             THEN AddRelativeDelta(reference_date, 1, 0)
        ELSE IF agr.end_date # <<>> THEN agr.end_date[1]
        ELSE IF agr.validity_end # <<>> THEN agr.validity_end[1]
        ELSE reference_date

RETENTION_DURATION_SELECTION == {"90_days", "6_months", "1_year", "over_period"}

\* the dates of the retention runs: the specification's example, the ends
\* of long months, a leap day and a day late in the year
ReferenceDates ==
    {Date(2024, 1, 1), Date(2023, 8, 31), Date(2024, 2, 29),
     Date(2023, 12, 15)}

OptionalReferenceDates == {<<>>} \cup {<<d>> : d \in ReferenceDates}

ContractEnds == {<<>>, <<Date(2024, 12, 31)>>}

InitRetention ==
    /\ InitSplitIdle
    /\ InitWindowsIdle
    /\ InitOrdersIdle
    /\ InitSyncIdle
    /\ InitWebhookIdle
    /\ user_privileged = FALSE
    /\ agreements = <<>>
    /\ InitLaterIdle
    /\ InitAgreementIdle
    /\ bill \in [invoice_date : OptionalReferenceDates,
                 invoice_date_due : OptionalReferenceDates]
    /\ \E duration \in RETENTION_DURATION_SELECTION \cup {""},
          end \in ContractEnds :
          \* end_date is a stored related field of validity_end
          retention_policy = [retention_duration |-> duration,
                              end_date |-> end, validity_end |-> end]
    /\ context_today = <<Date(2024, 3, 15)>>
    /\ scheduled_release_date = <<>>

GetRetentionReleaseDate ==
    /\ scheduled_release_date = <<>>
    /\ scheduled_release_date' =
          <<_get_retention_release_date(retention_policy, bill,
                                        context_today)>>
    /\ lastOp' = "_get_retention_release_date"
    /\ lastError' = "none"
    /\ UNCHANGED <<bill, retention_policy, context_today, splitVars,
                   windowVars, orderVars, syncVars, webhookVars,
                   user_privileged, agreements, laterVars,
                   agreementData>>

NextRetention == GetRetentionReleaseDate

SpecRetention == InitRetention /\ [][NextRetention]_vars

\* the duration in force: an unset duration counts as 90_days
DurationInForce ==
    IF retention_policy.retention_duration = "" THEN "90_days"
    ELSE retention_policy.retention_duration

\* C12: the release date computed for a bill is the reference date plus 90
\* days under 90_days (2024-03-31 for 2024-01-01), the same day of the
\* month six months later under 6_months and one year later under 1_year
\* (the last day of that month when the month is shorter), and under
\* over_period the contract end, or the reference date when no contract
\* end is set.
C12_ReleaseDateFollowsPolicy ==
    scheduled_release_date # <<>> =>
        LET ref == ReferenceDate(bill, context_today)
            rel == scheduled_release_date[1]
            last == DaysInMonth(rel.year, rel.month)
        IN  /\ DurationInForce = "90_days"
               => /\ toordinal(2023, rel) - toordinal(2023, ref) = 90
                  /\ rel.day <= last
                  /\ ref = Date(2024, 1, 1) => rel = Date(2024, 3, 31)
            /\ DurationInForce = "6_months"
               => /\ (rel.year * 12 + rel.month) - (ref.year * 12 + ref.month)
                        = 6
                  /\ rel.day = (IF ref.day <= last THEN ref.day ELSE last)
            /\ DurationInForce = "1_year"
               => /\ rel.year = ref.year + 1
                  /\ rel.month = ref.month
                  /\ rel.day = (IF ref.day <= last THEN ref.day ELSE last)
            /\ DurationInForce = "over_period"
               => rel = (IF retention_policy.validity_end # <<>>
                         THEN retention_policy.validity_end[1]
                         ELSE ref)

\* C12 witness: the 90 days policy applied to the invoice date 2024-01-01
\* of a bill without a due date.
C12_Witness ==
    /\ bill.invoice_date = <<Date(2024, 1, 1)>>
    /\ bill.invoice_date_due = <<>>
    /\ retention_policy.retention_duration = "90_days"
    /\ scheduled_release_date = <<Date(2024, 3, 31)>>

-----------------------------------------------------------------------------
(* The scheduled sync jobs (diesel_log.py, maintenance.py,                 *)
(* attendance_compliance.py).  Datetimes are hours on the clock now.  A    *)
(* job runs in one transaction: an exception that leaves the job rolls     *)
(* back everything the run has written.  A call's result is a record of    *)
(* the error raised ("none" when it returned) and the table it leaves.     *)

SyncBufferHours == 1
DieselBaselineDays == 7
HoursPerDay == 24

\* f"SYNC-DL-{log.id}": the prefix and the id
SyncName(prefix, id) == <<prefix, id>>

\* a diesel.log of the fleet module: agreement_id is the agreement resolved
\* for its vehicle (0: none), vehicle_assigned whether the vehicle is among
\* that agreement's vehicle_ids (it may be resolved through the manpower
\* matrix only)
FleetDieselLog(id, state, agreement_id, vehicle_assigned, km) ==
    [id |-> id, state |-> state, agreement_id |-> agreement_id,
     vehicle_assigned |-> vehicle_assigned, odometer_difference |-> km,
     write_date |-> 0, create_date |-> 0]

\* the search domain of cron_sync_from_fleet_issues
DieselDomain(logs, last_sync, clock) ==
    {i \in 1..Len(logs) :
        /\ logs[i].state \in {"approved", "done"}
        /\ IF last_sync # <<>>
           THEN logs[i].write_date > last_sync[1] - SyncBufferHours
           ELSE logs[i].create_date >=
                   clock - DieselBaselineDays * HoursPerDay}

\* order='write_date asc, id asc'
RECURSIVE OrderByWriteDate(_, _)
OrderByWriteDate(records, indices) ==
    IF indices = {} THEN <<>>
    ELSE LET first == CHOOSE i \in indices :
                 \A j \in indices :
                     \/ records[i].write_date < records[j].write_date
                     \/ /\ records[i].write_date = records[j].write_date
                        /\ records[i].id <= records[j].id
         IN  <<first>> \o OrderByWriteDate(records, indices \ {first})

_prepare_sync_vals(log) ==
    [agreement_id |-> log.agreement_id,
     vehicle_assigned |-> log.vehicle_assigned,
     work_done_km |-> log.odometer_difference]

\* the checks that create() and write() of rmc.diesel.log run on the
\* values: _check_positive_work and _validate_agreement_assignments
DieselLogError(vals) ==
    IF vals.work_done_km < 0 THEN "ValidationError"
    ELSE IF ~vals.vehicle_assigned THEN "ValidationError"
    ELSE "none"

\* self.search([('name', '=', sync_name)], limit=1): the index, 0 if none
SearchByName(records, sync_name) ==
    IF \E i \in 1..Len(records) : records[i].name = sync_name
    THEN CHOOSE i \in 1..Len(records) :
             /\ records[i].name = sync_name
             /\ \A j \in 1..(i - 1) : records[j].name # sync_name
    ELSE 0

\* an rmc.diesel.log holding the values under the name
RmcDieselLog(sync_name, vals) ==
    [name |-> sync_name, agreement_id |-> vals.agreement_id,
     vehicle_assigned |-> vals.vehicle_assigned,
     work_done_km |-> vals.work_done_km]

DieselUpsert_AlwaysCreate(records, sync_name, vals) ==
    Append(records, RmcDieselLog(sync_name, vals))

DieselUpsert(records, sync_name, vals) ==
    LET found == SearchByName(records, sync_name)
    IN  IF found # 0
        THEN [records EXCEPT ![found] = RmcDieselLog(sync_name, vals)]
        ELSE Append(records, RmcDieselLog(sync_name, vals))

_upsert_from_diesel_log(records, log) ==
    LET vals == _prepare_sync_vals(log)
        error == DieselLogError(vals)
    IN  IF error # "none" THEN [error |-> error, records |-> records]
        ELSE [error |-> "none",
              records |-> DieselUpsert(records, SyncName("SYNC-DL", log.id),
                                       vals)]

\* the loop of cron_sync_from_fleet_issues over the logs found, from the
\* k-th on; the exception of an upsert leaves the loop
RECURSIVE DieselSyncLoop(_, _, _, _, _)
DieselSyncLoop(records, logs, order, k, latest) ==
    IF k > Len(order) THEN [error |-> "none", records |-> records,
                            latest |-> latest]
    ELSE LET log == logs[order[k]]
             upsert == _upsert_from_diesel_log(records, log)
         IN  IF log.agreement_id = 0
             THEN DieselSyncLoop(records, logs, order, k + 1, latest)
             ELSE IF upsert.error # "none"
             THEN [error |-> upsert.error, records |-> records,
                   latest |-> latest]
             ELSE DieselSyncLoop(upsert.records, logs, order, k + 1,
                      IF latest = <<>> THEN <<log.write_date>>
                      ELSE <<MaxOf(latest[1], log.write_date)>>)

DieselSyncResult ==
    DieselSyncLoop(rmc_diesel_logs, diesel_logs,
        OrderByWriteDate(diesel_logs,
            DieselDomain(diesel_logs, diesel_last_sync, now)),
        1, diesel_last_sync)

cron_sync_from_fleet_issues ==
    /\ lastOp' = "cron_sync_from_fleet_issues"
    /\ job_rerun' = (lastOp = "cron_sync_from_fleet_issues" /\ lastError = "none")
    /\ lastError' = DieselSyncResult.error
    /\ IF DieselSyncResult.error # "none"
       THEN UNCHANGED dieselVars
       ELSE /\ rmc_diesel_logs' = DieselSyncResult.records
            /\ diesel_last_sync' = DieselSyncResult.latest
            /\ UNCHANGED diesel_logs
    /\ UNCHANGED <<now, maintenanceVars, attendanceVars, splitVars,
                   windowVars, orderVars, miscVars, agreementData>>

\* the fleet module's user corrects the odometer reading of a diesel log
FleetLogWrite(i, km) ==
    /\ i \in 1..Len(diesel_logs)
    /\ diesel_logs[i].odometer_difference # km
    /\ diesel_logs' = [diesel_logs EXCEPT ![i].odometer_difference = km,
                                          ![i].write_date = now]
    /\ lastOp' = "fleet_log_write"
    /\ job_rerun' = FALSE
    /\ lastError' = "none"
    /\ UNCHANGED <<now, diesel_last_sync, rmc_diesel_logs, maintenanceVars,
                   attendanceVars, splitVars, windowVars, orderVars,
                   miscVars, agreementData>>

\* ---- maintenance sync ----

MaintenanceBaselineDays == 30

\* a maintenance.request or an rmc.breakdown.event as the sync reads it:
\* the agreement it resolves to (0: none) and its cost or deduction amount
MaintenanceSource(id, agreement_id, cost) ==
    [id |-> id, agreement_id |-> agreement_id, cost |-> cost,
     write_date |-> 0, create_date |-> 0]

\* request_domain and breakdown_domain of cron_sync_from_maintenance
MaintenanceDomain(sources, last_sync, clock) ==
    {i \in 1..Len(sources) :
        IF last_sync # <<>>
        THEN sources[i].write_date > last_sync[1] - SyncBufferHours
        ELSE sources[i].create_date >=
                clock - MaintenanceBaselineDays * HoursPerDay}

\* _check_values of rmc.maintenance.check on the cost
MaintenanceCheckError(vals) ==
    IF vals.cost < 0 THEN "ValidationError" ELSE "none"

RmcMaintenanceCheck(sync_name, vals) ==
    [name |-> sync_name, agreement_id |-> vals.agreement_id,
     cost |-> vals.cost]

\* _upsert_request and _upsert_breakdown
MaintenanceUpsert(records, sync_name, source) ==
    LET vals == [agreement_id |-> source.agreement_id, cost |-> source.cost]
        found == SearchByName(records, sync_name)
    IN  IF MaintenanceCheckError(vals) # "none"
        THEN [error |-> MaintenanceCheckError(vals), records |-> records]
        ELSE [error |-> "none",
              records |->
                 IF found # 0
                 THEN [records EXCEPT
                          ![found] = RmcMaintenanceCheck(sync_name, vals)]
                 ELSE Append(records, RmcMaintenanceCheck(sync_name, vals))]

\* one of the two loops of cron_sync_from_maintenance
RECURSIVE MaintenanceSyncLoop(_, _, _, _, _, _)
MaintenanceSyncLoop(records, sources, order, k, latest, prefix) ==
    IF k > Len(order) THEN [error |-> "none", records |-> records,
                            latest |-> latest]
    ELSE LET source == sources[order[k]]
             upsert == MaintenanceUpsert(records,
                           SyncName(prefix, source.id), source)
         IN  IF source.agreement_id = 0
             THEN MaintenanceSyncLoop(records, sources, order, k + 1,
                                      latest, prefix)
             ELSE IF upsert.error # "none"
             THEN [error |-> upsert.error, records |-> records,
                   latest |-> latest]
             ELSE MaintenanceSyncLoop(upsert.records, sources, order, k + 1,
                      IF latest = <<>> THEN <<source.write_date>>
                      ELSE <<MaxOf(latest[1], source.write_date)>>, prefix)

MaintenanceSyncResult ==
    LET requests == MaintenanceSyncLoop(rmc_maintenance_checks,
                        maintenance_requests,
                        OrderByWriteDate(maintenance_requests,
                            MaintenanceDomain(maintenance_requests,
                                              maintenance_last_sync, now)),
                        1, maintenance_last_sync, "SYNC-MR")
    IN  IF requests.error # "none" THEN requests
        ELSE MaintenanceSyncLoop(requests.records, breakdown_events,
                 OrderByWriteDate(breakdown_events,
                     MaintenanceDomain(breakdown_events,
                                       maintenance_last_sync, now)),
                 1, requests.latest, "SYNC-BD")

cron_sync_from_maintenance ==
    /\ lastOp' = "cron_sync_from_maintenance"
    /\ job_rerun' = (lastOp = "cron_sync_from_maintenance" /\ lastError = "none")
    /\ lastError' = MaintenanceSyncResult.error
    /\ IF MaintenanceSyncResult.error # "none"
       THEN UNCHANGED maintenanceVars
       ELSE /\ rmc_maintenance_checks' = MaintenanceSyncResult.records
            /\ maintenance_last_sync' = MaintenanceSyncResult.latest
            /\ UNCHANGED <<maintenance_requests, breakdown_events>>
    /\ UNCHANGED <<now, dieselVars, attendanceVars, splitVars, windowVars,
                   orderVars, miscVars, agreementData>>

\* a maintenance request's cost is corrected
MaintenanceRequestWrite(i, cost) ==
    /\ i \in 1..Len(maintenance_requests)
    /\ maintenance_requests[i].cost # cost
    /\ maintenance_requests' =
          [maintenance_requests EXCEPT ![i].cost = cost,
                                       ![i].write_date = now]
    /\ lastOp' = "maintenance_request_write"
    /\ job_rerun' = FALSE
    /\ lastError' = "none"
    /\ UNCHANGED <<now, breakdown_events, maintenance_last_sync,
                   rmc_maintenance_checks, dieselVars, attendanceVars,
                   splitVars, windowVars, orderVars, miscVars,
                   agreementData>>

\* ---- attendance sync ----

AttendanceToday == 45
AttendanceSyncDays == 30
MinAttendanceSyncDays == 7

\* an hr.attendance: its employee (0: none), the agreement of the
\* attendance or of the employee (0: none), the local date of its check-in
\* and whether the employee is among the agreement's driver_ids
HrAttendance(id, employee_id, agreement_id, day, employee_assigned) ==
    [id |-> id, employee_id |-> employee_id, agreement_id |-> agreement_id,
     day |-> day, employee_assigned |-> employee_assigned]

_attendance_sync_window(last_sync, today) ==
    LET end_date == IF last_sync # <<>> /\ last_sync[1] > today - 1
                    THEN last_sync[1] ELSE today - 1
        window_days == MaxOf(AttendanceSyncDays, MinAttendanceSyncDays)
    IN  [start_date |-> end_date - (window_days - 1), end_date |-> end_date]

_attendance_domain(attendances, window) ==
    {i \in 1..Len(attendances) :
        /\ attendances[i].day >= window.start_date
        /\ attendances[i].day <= window.end_date}

\* the keys (agreement, day) of the bucket in the order of their first
\* attendance, from the k-th attendance on
RECURSIVE BucketKeys(_, _, _, _)
BucketKeys(attendances, found, k, keys) ==
    IF k > Len(attendances) THEN keys
    ELSE LET a == attendances[k]
             key == <<a.agreement_id, a.day>>
         IN  IF \/ k \notin found
                \/ a.employee_id = 0
                \/ a.agreement_id = 0
                \/ \E j \in 1..Len(keys) : keys[j] = key
             THEN BucketKeys(attendances, found, k + 1, keys)
             ELSE BucketKeys(attendances, found, k + 1, Append(keys, key))

BucketAttendances(attendances, found, key) ==
    {i \in found : /\ attendances[i].employee_id # 0
                   /\ attendances[i].agreement_id = key[1]
                   /\ attendances[i].day = key[2]}

AttendanceVals(attendances, found, key) ==
    LET members == BucketAttendances(attendances, found, key)
        employees == {attendances[i].employee_id : i \in members}
    IN  [agreement_id |-> key[1], date |-> key[2],
         employee_ids |-> employees,
         headcount_present |-> Cardinality(employees),
         employees_assigned |->
             \A i \in members : attendances[i].employee_assigned]

\* _check_employee_assignment of rmc.attendance.compliance
AttendanceError(vals) ==
    IF ~vals.employees_assigned THEN "ValidationError" ELSE "none"

\* self.search([('agreement_id', '=', ..), ('date', '=', ..)], limit=1)
SearchAttendance(records, agreement_id, day) ==
    IF \E i \in 1..Len(records) :
           records[i].agreement_id = agreement_id /\ records[i].date = day
    THEN CHOOSE i \in 1..Len(records) :
             /\ records[i].agreement_id = agreement_id
             /\ records[i].date = day
             /\ \A j \in 1..(i - 1) :
                    ~(records[j].agreement_id = agreement_id
                      /\ records[j].date = day)
    ELSE 0

AttendanceUpsert(records, vals) ==
    LET found == SearchAttendance(records, vals.agreement_id, vals.date)
    IN  IF found # 0 THEN [records EXCEPT ![found] = vals]
        ELSE Append(records, vals)

RECURSIVE AttendanceSyncLoop(_, _, _, _, _)
AttendanceSyncLoop(records, attendances, found, keys, k) ==
    IF k > Len(keys) THEN [error |-> "none", records |-> records]
    ELSE LET vals == AttendanceVals(attendances, found, keys[k])
         IN  IF AttendanceError(vals) # "none"
             THEN [error |-> AttendanceError(vals), records |-> records]
             ELSE AttendanceSyncLoop(AttendanceUpsert(records, vals),
                                     attendances, found, keys, k + 1)

AttendanceSyncResult ==
    LET window == _attendance_sync_window(attendance_last_sync,
                                          AttendanceToday)
        found == _attendance_domain(hr_attendances, window)
    IN  AttendanceSyncLoop(rmc_attendance_records, hr_attendances, found,
                           BucketKeys(hr_attendances, found, 1, <<>>), 1)

cron_sync_from_hr_attendance ==
    /\ lastOp' = "cron_sync_from_hr_attendance"
    /\ job_rerun' = (lastOp = "cron_sync_from_hr_attendance" /\ lastError = "none")
    /\ lastError' = AttendanceSyncResult.error
    /\ IF AttendanceSyncResult.error # "none"
       THEN UNCHANGED attendanceVars
       ELSE /\ rmc_attendance_records' = AttendanceSyncResult.records
            /\ attendance_last_sync' =
                  <<_attendance_sync_window(attendance_last_sync,
                                            AttendanceToday).end_date>>
            /\ UNCHANGED hr_attendances
    /\ UNCHANGED <<now, dieselVars, maintenanceVars, splitVars, windowVars,
                   orderVars, miscVars, agreementData>>

\* the employee of an attendance is corrected
AttendanceWrite(i, employee_id, employee_assigned) ==
    /\ i \in 1..Len(hr_attendances)
    /\ hr_attendances[i].employee_id # employee_id
    /\ hr_attendances' =
          [hr_attendances EXCEPT ![i].employee_id = employee_id,
                                 ![i].employee_assigned = employee_assigned]
    /\ lastOp' = "attendance_write"
    /\ lastError' = "none"
    /\ job_rerun' = FALSE
    /\ UNCHANGED <<now, attendance_last_sync, rmc_attendance_records,
                   dieselVars, maintenanceVars, splitVars, windowVars,
                   orderVars, miscVars, agreementData>>

\* an hour passes
MaxNow == 2

Tick ==
    /\ now < MaxNow
    /\ now' = now + 1
    /\ lastOp' = "tick"
    /\ job_rerun' = FALSE
    /\ lastError' = "none"
    /\ UNCHANGED <<dieselVars, maintenanceVars, attendanceVars, splitVars,
                   windowVars, orderVars, miscVars, agreementData>>

\* the source records of the job runs
OdometerValues == {-5, 12, 30}
CostValues == {-1, 50}
EmployeeIds == {1, 2}

DieselLogProfiles ==
    {<<"approved", 1, TRUE, 12>>, <<"approved", 1, TRUE, -5>>,
     <<"approved", 1, FALSE, 12>>, <<"approved", 0, TRUE, 12>>,
     <<"draft", 1, TRUE, 12>>}

MaintenanceProfiles == {<<1, 50>>, <<1, -1>>, <<0, 50>>}

AttendanceProfiles ==
    {<<1, 1, AttendanceToday - 1, TRUE>>,
     <<2, 1, AttendanceToday - 1, TRUE>>,
     <<2, 1, AttendanceToday - 1, FALSE>>,
     <<1, 1, AttendanceToday - 2, TRUE>>,
     <<1, 1, AttendanceToday, TRUE>>,
     <<0, 1, AttendanceToday - 1, TRUE>>}

InitDiesel ==
    /\ \E p \in DieselLogProfiles, q \in DieselLogProfiles :
          diesel_logs = <<FleetDieselLog(1, p[1], p[2], p[3], p[4]),
                          FleetDieselLog(2, q[1], q[2], q[3], q[4])>>
    /\ diesel_last_sync = <<>>
    /\ rmc_diesel_logs = <<>>

InitMaintenance ==
    /\ \E p \in MaintenanceProfiles, q \in MaintenanceProfiles :
          /\ maintenance_requests = <<MaintenanceSource(1, p[1], p[2])>>
          /\ breakdown_events = <<MaintenanceSource(1, 1, q[2])>>
    /\ maintenance_last_sync = <<>>
    /\ rmc_maintenance_checks = <<>>

InitAttendance ==
    /\ \E p \in AttendanceProfiles, q \in AttendanceProfiles :
          hr_attendances = <<HrAttendance(1, p[1], p[2], p[3], p[4]),
                             HrAttendance(2, q[1], q[2], q[3], q[4])>>
    /\ attendance_last_sync = <<>>
    /\ rmc_attendance_records = <<>>

\* the runs of the jobs: the source records of one job at a time
InitJobs ==
    /\ InitSplitIdle
    /\ InitMiscIdle
    /\ InitAgreementIdle
    /\ now = 0
    /\ job_rerun = FALSE
    /\ \/ /\ InitDiesel
          /\ InitMaintenanceIdle /\ InitAttendanceIdle
          /\ InitWindowsIdle /\ InitOrdersIdle
       \/ /\ InitMaintenance
          /\ InitDieselIdle /\ InitAttendanceIdle
          /\ InitWindowsIdle /\ InitOrdersIdle
       \/ /\ InitAttendance
          /\ InitDieselIdle /\ InitMaintenanceIdle
          /\ InitWindowsIdle /\ InitOrdersIdle
       \/ /\ InitContract
          /\ InitDieselIdle /\ InitMaintenanceIdle /\ InitAttendanceIdle

NextJobs ==
    \/ cron_sync_from_fleet_issues
    \/ \E i \in 1..2, km \in OdometerValues : FleetLogWrite(i, km)
    \/ cron_sync_from_maintenance
    \/ \E cost \in CostValues : MaintenanceRequestWrite(1, cost)
    \/ cron_sync_from_hr_attendance
    \/ \E i \in 1..2, e \in EmployeeIds, assigned \in BOOLEAN :
          AttendanceWrite(i, e, assigned)
    \/ \E limit \in {0, 1} : gear_generate_monthly_orders(limit)
    \/ Tick

SpecJobs == InitJobs /\ [][NextJobs]_vars

-----------------------------------------------------------------------------
(* Claims about the scheduled jobs (checked under SpecJobs).               *)

\* no two target records have the same natural key
NaturalKeysUnique ==
    /\ \A i, j \in 1..Len(rmc_diesel_logs) :
           rmc_diesel_logs[i].name = rmc_diesel_logs[j].name => i = j
    /\ \A i, j \in 1..Len(rmc_attendance_records) :
           (/\ rmc_attendance_records[i].agreement_id =
                  rmc_attendance_records[j].agreement_id
            /\ rmc_attendance_records[i].date =
                  rmc_attendance_records[j].date) => i = j
    /\ \A i, j \in 1..Len(monthly_orders) :
           monthly_orders[i].date_start = monthly_orders[j].date_start
               => i = j

\* C13: a job run again directly after a completed run of the same job,
\* over the same source records, creates no target record: the diesel
\* logs, attendance records and monthly orders are as many as before, and
\* no two of them ever have the same natural key.
C13_RerunCreatesNoTargetRecords ==
    [][ /\ job_rerun' =>
              /\ Len(rmc_diesel_logs') = Len(rmc_diesel_logs)
              /\ Len(rmc_attendance_records') = Len(rmc_attendance_records)
              /\ Len(monthly_orders') = Len(monthly_orders)
        /\ NaturalKeysUnique' ]_vars

\* C13 witness: the diesel job has run twice in a row and the two logs it
\* mirrored are there once each.
C13_Witness ==
    /\ job_rerun
    /\ lastOp = "cron_sync_from_fleet_issues"
    /\ lastError = "none"
    /\ Len(rmc_diesel_logs) = 2
    /\ rmc_diesel_logs[1].name = SyncName("SYNC-DL", 1)
    /\ rmc_diesel_logs[2].name = SyncName("SYNC-DL", 2)

\* the source records of a run that are valid: they resolve to an
\* agreement and their values pass the checks of the target model
ValidDieselLogs ==
    {i \in DieselDomain(diesel_logs, diesel_last_sync, now) :
        /\ diesel_logs[i].agreement_id # 0
        /\ DieselLogError(_prepare_sync_vals(diesel_logs[i])) = "none"}

ValidMaintenanceRequests ==
    {i \in MaintenanceDomain(maintenance_requests, maintenance_last_sync,
                             now) :
        /\ maintenance_requests[i].agreement_id # 0
        /\ maintenance_requests[i].cost >= 0}

\* C14 as stated: a run of a sync job processes every valid record it
\* selected, whether or not another record of the run fails: after the
\* run each valid diesel log and each valid maintenance request has its
\* mirrored record with the source's values.
C14_FailingRecordDoesNotAbortRun ==
    [][ /\ lastOp' = "cron_sync_from_fleet_issues" =>
              \A i \in ValidDieselLogs :
                  \E t \in 1..Len(rmc_diesel_logs') :
                      /\ rmc_diesel_logs'[t].name =
                            SyncName("SYNC-DL", diesel_logs[i].id)
                      /\ rmc_diesel_logs'[t].work_done_km =
                            diesel_logs[i].odometer_difference
        /\ lastOp' = "cron_sync_from_maintenance" =>
              \A i \in ValidMaintenanceRequests :
                  \E t \in 1..Len(rmc_maintenance_checks') :
                      /\ rmc_maintenance_checks'[t].name =
                            SyncName("SYNC-MR", maintenance_requests[i].id)
                      /\ rmc_maintenance_checks'[t].cost =
                            maintenance_requests[i].cost ]_vars

-----------------------------------------------------------------------------
(* The telemetry webhook (controllers/ids.py, ids_workcenter_update).      *)
(* A request has the X-IDS-Token header ("" when absent), the              *)
(* Authorization header (scheme and credentials, <<>> when absent) and the *)
(* payload's work center id, timestamp and docket number.  The work order  *)
(* of the known work center and the dockets of its contract are the        *)
(* records the request can change.                                         *)

AuthSchemes == {"Bearer", "TOKEN", "Basic"}

\* auth_header.lower() of the scheme
Lower(scheme) ==
    IF scheme = "Bearer" THEN "bearer"
    ELSE IF scheme = "TOKEN" THEN "token"
    ELSE "basic"

\* the token that _check_token reads from the headers
HeaderToken(req) ==
    IF req.x_ids_token # "" THEN req.x_ids_token
    ELSE IF req.authorization = <<>> THEN ""
    ELSE IF Lower(req.authorization[1].scheme) \in {"bearer", "token"}
         THEN req.authorization[1].credentials
    ELSE ""

_check_token_AcceptsAll(token_param, req) == TRUE

\* TRUE when _check_token returns None, FALSE when it returns the 401
_check_token(token_param, req) ==
    IF token_param = "" THEN TRUE
    ELSE HeaderToken(req) # "" /\ HeaderToken(req) = token_param

Unauthorized ==
    [http_status |-> 401, status |-> "error", message |-> "Unauthorized"]

Envelope(status, message) ==
    [http_status |-> 200, status |-> status, message |-> message]

KnownWorkcenter == "WC1"

\* gear_find_workorder: the work order of the work center when it is ready
\* or in progress; gear_find_mo_for_datetime repeats the same search
gear_find_workorder(wo) == wo.state \in {"ready", "progress"}

\* unique(so_id, docket_no): another work order of the contract has a
\* docket of this number
DocketConflict(records, docket_no) ==
    \E i \in 1..Len(records) :
        records[i].docket_no = docket_no /\ records[i].workorder_id # 1

\* gear_create_from_workorder for the work order (id 1)
gear_create_from_workorder(records, req) ==
    LET docket_no == IF req.docket_no # "" THEN req.docket_no ELSE "1-today"
        vals == [workorder_id |-> 1, docket_no |-> docket_no,
                 payload_timestamp |-> req.timestamp]
        found == {i \in 1..Len(records) :
                     records[i].workorder_id = 1
                     /\ records[i].docket_no = docket_no}
    IN  IF found # {}
        THEN [error |-> "none",
              records |-> [records EXCEPT ![CHOOSE i \in found : TRUE] = vals]]
        ELSE IF DocketConflict(records, docket_no)
        THEN [error |-> "IntegrityError", records |-> records]
        ELSE [error |-> "none", records |-> Append(records, vals)]

\* what the request has written when the exception is caught
Rollback_KeepsWrites(before, written) == written

\* env.cr.rollback()
Rollback(before, written) == before

\* the outcome of ids_workcenter_update: the error caught ("none" when no
\* exception was raised), the response, and the work order and dockets
WebhookResult(req) ==
    LET before == [workorder |-> workorder, dockets |-> dockets]
        stamped == IF req.timestamp # ""
                   THEN [workorder EXCEPT !.gear_last_ids_timestamp =
                                              req.timestamp]
                   ELSE workorder
        docket == gear_create_from_workorder(dockets, req)
        Caught(error, written) ==
            [error |-> error, response |-> Envelope("error", error),
             data |-> Rollback(before, written)]
        Returned(resp, written) ==
            [error |-> "none", response |-> resp, data |-> written]
    IN  IF ~_check_token(ids_token, req)
        THEN Returned(Unauthorized, before)
        ELSE IF req.workcenter_external_id = ""
        THEN Caught("ValueError", before)
        ELSE IF req.workcenter_external_id # KnownWorkcenter
        THEN Returned(Envelope("error", "Unknown work center."), before)
        ELSE IF req.timestamp = "not-a-date"
        THEN Caught("ValueError", before)
        ELSE IF ~gear_find_workorder(workorder)
                /\ monthly_order_link = "none"
        THEN Returned(Envelope("error",
                 "No active work order found for the provided timestamp."),
                 before)
        ELSE IF ~gear_find_workorder(workorder)
                /\ monthly_order_link = "no_production"
        THEN Returned(Envelope("error",
                 "Unable to locate or create a work order for telemetry."),
                 before)
        ELSE IF docket.error # "none"
        THEN Caught(docket.error,
                    [workorder |-> stamped, dockets |-> dockets])
        ELSE Returned(Envelope("ok", ""),
                      [workorder |-> stamped, dockets |-> docket.records])

ids_workcenter_update(req) ==
    /\ request' = req
    /\ LET result == WebhookResult(req)
       IN  /\ response' = result.response
           /\ workorder' = result.data.workorder
           /\ dockets' = result.data.dockets
           /\ lastError' = result.error
    /\ lastOp' = "ids_workcenter_update"
    /\ UNCHANGED <<ids_token, monthly_order_link, splitVars, windowVars,
                   orderVars, retentionVars, user_privileged, agreements,
                   laterVars, syncVars,
                   agreementData>>

TokenValues == {"", "secret", "wrong"}

Authorizations ==
    {<<>>, <<[scheme |-> "Bearer", credentials |-> "wrong"]>>}
    \cup {<<[scheme |-> sch, credentials |-> "secret"]>> : sch \in AuthSchemes}

Requests ==
    [x_ids_token : TokenValues,
     authorization : Authorizations,
     workcenter_external_id : {"", KnownWorkcenter, "WC9"},
     timestamp : {"", "2025-01-05 10:00:00", "not-a-date"},
     docket_no : {"", "D1"}]

InitWebhook ==
    /\ InitSplitIdle
    /\ InitWindowsIdle
    /\ InitOrdersIdle
    /\ InitRetentionIdle
    /\ user_privileged = FALSE
    /\ agreements = <<>>
    /\ InitLaterIdle
    /\ InitSyncIdle
    /\ InitAgreementIdle
    /\ ids_token \in {"", "secret"}
    /\ workorder \in [state : {"progress", "done"},
                      gear_last_ids_timestamp : {""}]
    /\ monthly_order_link \in {"none", "no_production", "with_workorder"}
    \* another work order of the contract has the docket D1
    /\ dockets = <<[workorder_id |-> 2, docket_no |-> "D1",
                    payload_timestamp |-> ""]>>
    /\ request = NoRequest
    /\ response = NoResponse

NextWebhook == \E req \in Requests : ids_workcenter_update(req)

SpecWebhook == InitWebhook /\ [][NextWebhook]_vars

\* the records a request can change
WebhookRecordsChanged == workorder' # workorder \/ dockets' # dockets

\* C15: when an exception is raised while a telemetry update is processed,
\* the caller gets the envelope with status "error" and the exception's
\* message, and the work order and the dockets are as they were before the
\* request.
C15_FailureIsCaughtAndRolledBack ==
    [][ (lastOp' = "ids_workcenter_update" /\ lastError' # "none") =>
            /\ response'.status = "error"
            /\ response'.message = lastError'
            /\ response'.http_status = 200
            /\ ~WebhookRecordsChanged ]_vars

\* C15 witness: the docket number of the request belongs to another work
\* order of the contract; the request carried a timestamp, and the work
\* order's last update is still unset.
C15_Witness ==
    /\ lastOp = "ids_workcenter_update"
    /\ lastError = "IntegrityError"
    /\ request.timestamp = "2025-01-05 10:00:00"
    /\ workorder.gear_last_ids_timestamp = ""
    /\ response.status = "error"

\* the request carries the configured token in the X-IDS-Token header or
\* as bearer or token credentials of the Authorization header
CarriesValidToken(req) ==
    \/ req.x_ids_token = ids_token
    \/ /\ req.authorization # <<>>
       /\ Lower(req.authorization[1].scheme) \in {"bearer", "token"}
       /\ req.authorization[1].credentials = ids_token

\* C16 as stated: a request changes a record only when it carries the
\* valid token.
C16_ChangesOnlyWithValidToken ==
    [][ (lastOp' = "ids_workcenter_update" /\ WebhookRecordsChanged) =>
            (ids_token # "" /\ CarriesValidToken(request')) ]_vars

\* C16 amended: when a token is configured, a request changes a record
\* only when it carries that token, and a request without the matching
\* token gets the 401 response; when no token is configured, requests are
\* processed without a token.
C16_ChangesOnlyWithValidTokenWhenConfigured ==
    [][ (lastOp' = "ids_workcenter_update" /\ ids_token # "") =>
            /\ WebhookRecordsChanged => CarriesValidToken(request')
            /\ ~CarriesValidToken(request') =>
                  (response' = Unauthorized /\ ~WebhookRecordsChanged) ]_vars

\* C16 witness: a token is configured, the request carries it as bearer
\* credentials, and a docket was registered.
C16_Witness ==
    /\ ids_token = "secret"
    /\ request.x_ids_token = ""
    /\ request.authorization = <<[scheme |-> "Bearer",
                                  credentials |-> "secret"]>>
    /\ response.status = "ok"
    /\ \E i \in 1..Len(dockets) : dockets[i].workorder_id = 1

-----------------------------------------------------------------------------
(* The operational records of an agreement during its closure               *)
(* (diesel_log.py, attendance_compliance.py, maintenance.py: create).      *)
(* The agreement is the one of id 1; the values of the new records pass    *)
(* the checks of their models.                                             *)

MaxOperationRecords == 2

\* rmc.diesel.log.create() by the user, the name taken from the sequence
DieselLogCreate ==
    /\ Len(rmc_diesel_logs) < MaxOperationRecords
    /\ lastOp' = "diesel_log_create"
    /\ IF _check_closure_operation_allowed(user_privileged)
       THEN /\ lastError' = "ValidationError"
            /\ UNCHANGED rmc_diesel_logs
       ELSE /\ lastError' = "none"
            /\ rmc_diesel_logs' =
                  Append(rmc_diesel_logs,
                         RmcDieselLog(<<"DL", Len(rmc_diesel_logs) + 1>>,
                                      [agreement_id |-> 1,
                                       vehicle_assigned |-> TRUE,
                                       work_done_km |-> 200]))
    /\ UNCHANGED <<now, job_rerun, diesel_logs, diesel_last_sync,
                   maintenanceVars, attendanceVars, splitVars, windowVars,
                   orderVars, miscVars, agreementData>>

\* rmc.attendance.compliance.create() by the user
AttendanceCreate ==
    /\ Len(rmc_attendance_records) < MaxOperationRecords
    /\ lastOp' = "attendance_create"
    /\ IF _check_closure_operation_allowed(user_privileged)
       THEN /\ lastError' = "ValidationError"
            /\ UNCHANGED rmc_attendance_records
       ELSE /\ lastError' = "none"
            /\ rmc_attendance_records' =
                  Append(rmc_attendance_records,
                         [agreement_id |-> 1, date |-> AttendanceToday,
                          employee_ids |-> {}, headcount_present |-> 0,
                          employees_assigned |-> TRUE])
    /\ UNCHANGED <<now, job_rerun, hr_attendances, attendance_last_sync,
                   dieselVars, maintenanceVars, splitVars, windowVars,
                   orderVars, miscVars, agreementData>>

\* rmc.maintenance.check.create() by the user
MaintenanceCheckCreate ==
    /\ Len(rmc_maintenance_checks) < MaxOperationRecords
    /\ lastOp' = "maintenance_check_create"
    /\ IF _check_closure_operation_allowed(user_privileged)
       THEN /\ lastError' = "ValidationError"
            /\ UNCHANGED rmc_maintenance_checks
       ELSE /\ lastError' = "none"
            /\ rmc_maintenance_checks' =
                  Append(rmc_maintenance_checks,
                         RmcMaintenanceCheck(
                             <<"MC", Len(rmc_maintenance_checks) + 1>>,
                             [agreement_id |-> 1, cost |-> 0]))
    /\ UNCHANGED <<now, job_rerun, maintenance_requests, breakdown_events,
                   maintenance_last_sync, dieselVars, attendanceVars,
                   splitVars, windowVars, orderVars, miscVars,
                   agreementData>>

InitOperations ==
    /\ InitSplitIdle
    /\ InitWindowsIdle
    /\ InitOrdersIdle
    /\ InitSyncIdle
    /\ InitRetentionIdle
    /\ InitWebhookIdle
    /\ user_privileged \in BOOLEAN
    /\ agreements = <<>>
    /\ InitLaterIdle
    /\ \E s \in {"draft", "active", "expired", "closure_review", "settled"} :
          agreement = [NewAgreement EXCEPT !.state = s]
    /\ sign_request = "none"
    /\ signed_attachment = FALSE
    /\ previous_agreement_id = <<>>
    /\ breakdown_event_ids = <<>>
    /\ inventory_handover_ids = <<>>
    /\ wizard = <<>>
    /\ account_moves = {}
    /\ lastOp = "none"
    /\ lastError = "none"

NextOperations ==
    \/ action_start_closure
    \/ DieselLogCreate
    \/ AttendanceCreate
    \/ MaintenanceCheckCreate
    \/ \E responsibility \in {"contractor", "company"} :
          BreakdownCreate(responsibility, user_privileged)

SpecOperations == InitOperations /\ [][NextOperations]_vars

OperationCreates ==
    {"diesel_log_create", "attendance_create", "maintenance_check_create",
     "breakdown_create"}

OperationRecordsUnchanged ==
    /\ rmc_diesel_logs' = rmc_diesel_logs
    /\ rmc_attendance_records' = rmc_attendance_records
    /\ rmc_maintenance_checks' = rmc_maintenance_checks
    /\ breakdown_event_ids' = breakdown_event_ids

ConfirmRefusedByBlockers ==
    /\ wizard # <<>>
    /\ agreement.state = "closure_review"
    /\ _evaluate_hold_state(wizard[1]).hold_detected

\* C18: after a settlement confirm that is refused because of blockers the
\* agreement has settlement_hold = TRUE, and after a confirm that succeeds
\* the agreement is settled and has settlement_hold = FALSE
C18_RefusedConfirmHoldsAndSuccessReleases ==
    [][lastOp' = "action_confirm" =>
          /\ (ConfirmRefusedByBlockers /\ lastError' # "none")
                => agreement'.settlement_hold = TRUE
          /\ lastError' = "none"
                => /\ agreement'.state = "settled"
                   /\ agreement'.settlement_hold = FALSE]_vars

\* ---------------------------------------------------------------------
\* Renewal activation (agreement.py, action_activate_on_sign)
\* ---------------------------------------------------------------------

\* a signed renewal with validity dates, about to be activated
SignedRenewal ==
    /\ is_signed
    /\ previous_agreement_id # <<>>
    /\ agreement.validity_start
    /\ agreement.validity_end

\* C19: activating a signed renewal sets the renewal to active, sets its
\* previous agreement to expired and points the previous agreement's
\* next_agreement_id at the renewal, even when the previous agreement is
\* active and its validity dates overlap those of the renewal
C19_RenewalActivationExpiresPrevious ==
    [][(lastOp' = "action_activate_on_sign" /\ SignedRenewal) =>
          /\ lastError' = "none"
          /\ agreement'.state = "active"
          /\ previous_agreement_id'[1].state = "expired"
          /\ previous_agreement_id'[1].next_agreement_id]_vars

\* ---------------------------------------------------------------------
\* One active agreement per contractor, analytic account and company
\* (agreement.py, _check_active_overlap)
\* ---------------------------------------------------------------------

\* date.min.toordinal() and date.max.toordinal()
DateMin == 1
DateMax == 3652059

\* value or default, for an optional value
OrDefault(value, default) == IF value = <<>> THEN default ELSE value[1]

_dates_overlap(start_a, end_a, start_b, end_b) ==
    LET sa == OrDefault(start_a, DateMin)
        sb == OrDefault(start_b, DateMin)
        ea == OrDefault(end_a, DateMax)
        eb == OrDefault(end_b, DateMax)
    IN  sa <= eb /\ sb <= ea

\* others = self.search(domain); "" is an empty many2one, env_company is
\* self.env.company of the call
ActiveOverlapOthers(records, id, env_company) ==
    LET record == records[id]
    IN  {other \in DOMAIN records :
            /\ other # id
            /\ records[other].contractor_id = record.contractor_id
            /\ records[other].company_id =
                  (IF record.company_id # "" THEN record.company_id
                   ELSE env_company)
            /\ records[other].state = "active"
            /\ records[other].analytic_account_id =
                  record.analytic_account_id}

\* TRUE when the constraint _check_active_overlap raises ValidationError
\* for the record id of the table records
_check_active_overlap_of(records, id, env_company) ==
    LET record == records[id]
    IN  /\ record.state = "active"
        /\ record.contractor_id # ""
        /\ \E other \in ActiveOverlapOthers(records, id, env_company) :
               _dates_overlap(record.validity_start, record.validity_end,
                              records[other].validity_start,
                              records[other].validity_end)

overlapIdle ==
    <<splitVars, windowVars, orderVars, syncVars, retentionVars,
      webhookVars, user_privileged, laterVars, agreementData>>

\* Agreement.create(vals): the constraints run on the new record
AgreementCreate(id, vals, env_company) ==
    /\ id \notin DOMAIN agreements
    /\ lastOp' = "agreements_create"
    /\ LET created == [x \in DOMAIN agreements \cup {id} |->
                          IF x = id THEN vals ELSE agreements[x]]
       IN  IF _check_active_overlap_of(created, id, env_company)
           THEN /\ lastError' = "ValidationError"
                /\ UNCHANGED agreements
           ELSE /\ lastError' = "none"
                /\ agreements' = created
    /\ UNCHANGED overlapIdle

\* agreement.with_context(...).write(vals): the write lock, then the
\* constraints of the written fields
AgreementWrite(id, vals, bypass, env_company) ==
    /\ id \in DOMAIN agreements
    /\ lastOp' = "agreements_write"
    /\ LET written == [agreements EXCEPT ![id] = Assign(@, vals)]
       IN  IF _check_locked_records_for_write(agreements[id], vals, bypass)
           THEN /\ lastError' = "UserError"
                /\ UNCHANGED agreements
           ELSE IF _check_active_overlap_of(written, id, env_company)
           THEN /\ lastError' = "ValidationError"
                /\ UNCHANGED agreements
           ELSE /\ lastError' = "none"
                /\ agreements' = written
    /\ UNCHANGED overlapIdle

\* the ids, partners, analytic accounts, companies and validity periods of
\* the calls; "" is an empty many2one and <<>> an empty date
AgreementIds == {"agreement_1", "agreement_2"}
Contractors == {"vendor_1", "vendor_2"}
AnalyticAccounts == {"", "analytic_1"}
Companies == {"company_1", "company_2"}
ValidityPeriods ==
    {<<<<>>, <<>>>>, <<<<738000>>, <<738365>>>>,
     <<<<738200>>, <<738500>>>>, <<<<738366>>, <<>>>>}

AgreementCreateVals ==
    {[contractor_id |-> c, analytic_account_id |-> a, company_id |-> k,
      state |-> s, validity_start |-> p[1], validity_end |-> p[2]] :
        c \in Contractors, a \in AnalyticAccounts,
        k \in Companies \cup {""}, s \in {"draft", "active"},
        p \in ValidityPeriods}

AgreementWriteVals ==
    {[state |-> s] : s \in {"draft", "active"}}
    \cup {[validity_start |-> p[1], validity_end |-> p[2]] :
             p \in ValidityPeriods}
    \cup {[company_id |-> k] : k \in Companies \cup {""}}
    \cup {[contractor_id |-> c] : c \in Contractors}
    \cup {[analytic_account_id |-> a] : a \in AnalyticAccounts}

InitOverlap ==
    /\ InitSplitIdle
    /\ InitWindowsIdle
    /\ InitRestIdle
    /\ InitAgreementIdle

NextOverlap ==
    \/ \E id \in AgreementIds, vals \in AgreementCreateVals,
          env_company \in Companies :
          AgreementCreate(id, vals, env_company)
    \/ \E id \in AgreementIds, vals \in AgreementWriteVals,
          bypass \in BOOLEAN, env_company \in Companies :
          AgreementWrite(id, vals, bypass, env_company)

SpecOverlap == InitOverlap /\ [][NextOverlap]_vars

\* two agreements of the same contractor, analytic account and company
SameScope(a, b) ==
    /\ a.contractor_id = b.contractor_id
    /\ a.analytic_account_id = b.analytic_account_id
    /\ a.company_id = b.company_id

\* C20: at any time there is at most one active agreement per contractor,
\* analytic account and company whose validity dates overlap
C20_AtMostOneActiveOverlapping ==
    \A i \in DOMAIN agreements, j \in DOMAIN agreements :
        (/\ i # j
         /\ agreements[i].state = "active"
         /\ agreements[j].state = "active"
         /\ SameScope(agreements[i], agreements[j]))
        => ~_dates_overlap(agreements[i].validity_start,
                           agreements[i].validity_end,
                           agreements[j].validity_start,
                           agreements[j].validity_end)

\* ---------------------------------------------------------------------
\* NGT and LOTO relief (loto_request.py, ngt_request.py, sale_order.py,
\* mrp_production_ext.py, rmc_work_order.py)
\* ---------------------------------------------------------------------
\* Datetimes are hours since the start of day 1 and days are numbered
\* from 1; day d runs from hour 24 * (d - 1) to 23:59:59 of the same day,
\* which the rounding of the overlap to two decimals turns into 24 * d.

\* the sum of the values of a function
RECURSIVE SumOf(_)
SumOf(f) ==
    IF DOMAIN f = {} THEN 0
    ELSE LET x == CHOOSE x \in DOMAIN f : TRUE
         IN  f[x] + SumOf([y \in DOMAIN f \ {x} |-> f[y]])

\* the elements of a set of numbers in ascending order
RECURSIVE SortedSeq(_)
SortedSeq(S) ==
    IF S = {} THEN <<>>
    ELSE LET m == CHOOSE m \in S : \A x \in S : m <= x
         IN  <<m>> \o SortedSeq(S \ {m})

\* fields.Date.to_date(datetime)
DateOf(datetime) == (datetime \div HoursPerDay) + 1

\* the calendar: the first days of the model are the last days of March
\* 2025, the later ones the first days of April 2025
LastDayOfMarch == 3
MonthKey(day) == IF day <= LastDayOfMarch THEN "2025-03-01" ELSE "2025-04-01"

\* _gear_get_day_bounds(cursor): the bounds of the daily production
_gear_get_day_bounds(day) ==
    [start_dt |-> HoursPerDay * (day - 1), end_dt |-> HoursPerDay * day]

\* _gear_overlap_hours(production, start_dt, end_dt) for the production of
\* a day
_gear_overlap_hours(day, start_dt, end_dt) ==
    LET window_start == MaxOf(start_dt, _gear_get_day_bounds(day).start_dt)
        window_end == MinOf(end_dt, _gear_get_day_bounds(day).end_dt)
    IN  IF window_end <= window_start THEN 0
        ELSE window_end - window_start

\* _gear_get_productions_between: the days of the productions that overlap
ProductionsBetween(productions, start_dt, end_dt) ==
    {day \in DOMAIN productions :
        _gear_overlap_hours(day, start_dt, end_dt) > 0}

\* a gear.rmc.monthly.order of the contract, as created for a window
RmcMonthlyOrder(date_start, date_end) ==
    [date_start |-> date_start, date_end |-> date_end,
     last_generated_date |-> 0, ngt_hours |-> 0, loto_hours |-> 0,
     waveoff_hours_applied |-> 0, waveoff_hours_chargeable |-> 0]

\* a daily mrp.production, as created by _generate_daily_productions
MrpProduction(x_monthly_order_id) ==
    [x_monthly_order_id |-> x_monthly_order_id, x_ngt_hours |-> 0,
     x_loto_hours |-> 0, x_waveoff_hours_applied |-> 0,
     x_waveoff_hours_chargeable |-> 0]

\* order.production_ids: the days of the productions of a monthly order
production_ids(productions, order_id) ==
    {day \in DOMAIN productions :
        productions[day].x_monthly_order_id = order_id}

\* _compute_relief_breakdown of one monthly order: the ledgers of the
\* order's month replace the totals of its productions when there are any
_compute_relief_breakdown(order, productions, loto_ledger, ngt_ledger, allowance) ==
    LET days == production_ids(productions, order.date_start)
        month_key == MonthKey(order.date_start)
        ngt_ledgers == {r \in DOMAIN ngt_ledger :
                           ngt_ledger[r].month = month_key}
        loto_ledgers == {r \in DOMAIN loto_ledger :
                            loto_ledger[r].month = month_key}
        ngt_total ==
            IF ngt_ledgers # {}
            THEN SumOf([r \in ngt_ledgers |-> ngt_ledger[r].hours_relief])
            ELSE SumOf([d \in days |-> productions[d].x_ngt_hours])
        loto_total ==
            IF loto_ledgers # {}
            THEN SumOf([r \in loto_ledgers |-> loto_ledger[r].hours_total])
            ELSE SumOf([d \in days |-> productions[d].x_loto_hours])
    IN  [order EXCEPT
            !.ngt_hours = ngt_total,
            !.loto_hours = loto_total,
            !.waveoff_hours_applied = MinOf(loto_total, allowance),
            !.waveoff_hours_chargeable = MaxOf(loto_total - allowance, 0)]

\* the pending computations of the stored relief fields are processed for
\* all the monthly orders of the set pending at once
Recompute(orders, pending, productions, loto_ledger, ngt_ledger) ==
    [k \in DOMAIN orders |->
        IF k \in pending
        THEN _compute_relief_breakdown(orders[k], productions, loto_ledger,
                                       ngt_ledger, x_loto_waveoff_hours)
        ELSE orders[k]]

\* the records a call works on, and the monthly orders whose stored relief
\* fields wait to be recomputed
ReliefRecords ==
    [error |-> "none", orders |-> rmc_monthly_orders,
     productions |-> mrp_productions, pending |-> {},
     total_waveoff |-> 0, total_chargeable |-> 0]

\* _generate_daily_productions of one monthly order; until_date = 0 stands
\* for no until_date
_generate_daily_productions(acc, order_id, until_date) ==
    LET order == acc.orders[order_id]
        generation_end == IF until_date # 0
                          THEN MinOf(until_date, order.date_end)
                          ELSE order.date_end
        start_day == IF order.last_generated_date # 0
                     THEN order.last_generated_date + 1
                     ELSE order.date_start
        cursor == IF until_date # 0
                  THEN MaxOf(order.date_start, start_day)
                  ELSE order.date_start
        created == (cursor..generation_end) \ DOMAIN acc.productions
    IN  IF generation_end < order.date_start \/ cursor > generation_end
        THEN acc
        ELSE [acc EXCEPT
                !.orders[order_id].last_generated_date = generation_end,
                !.productions =
                    [day \in DOMAIN acc.productions \cup created |->
                        IF day \in created THEN MrpProduction(order_id)
                        ELSE acc.productions[day]],
                !.pending = IF created # {} THEN @ \cup {order_id} ELSE @]

\* gear_generate_monthly_orders(date_start, date_end) once the monthly
\* orders of all windows exist: the orders of the period are written with
\* their own values, and the current one, or else the latest past one, is
\* scheduled up to today
gear_generate_monthly_orders_between(acc, date_start, date_end) ==
    LET managed_orders ==
            {k \in DOMAIN acc.orders :
                /\ ~(acc.orders[k].date_start > date_end)
                /\ ~(acc.orders[k].date_end < date_start)}
        current == {k \in managed_orders :
                       /\ acc.orders[k].date_start <= relief_today
                       /\ relief_today <= acc.orders[k].date_end}
        past_orders == {k \in managed_orders :
                           acc.orders[k].date_end < relief_today}
        latest == {k \in past_orders : \A j \in past_orders : j <= k}
        current_orders == IF current # {} THEN current ELSE latest
    IN  IF current_orders = {} THEN acc
        ELSE _generate_daily_productions(
                 acc, CHOOSE k \in current_orders : TRUE, relief_today)

\* gear_allocate_relief_hours(hours, reason) on one production
gear_allocate_relief_hours(production, hours, reason) ==
    IF hours = 0 THEN production
    ELSE IF reason = "ngt"
    THEN [production EXCEPT !.x_ngt_hours = @ + hours]
    ELSE IF reason = "loto"
    THEN [production EXCEPT !.x_loto_hours = @ + hours]
    ELSE production

\* gear_apply_loto_waveoff(applied_hours, chargeable_hours)
gear_apply_loto_waveoff(production, applied_hours, chargeable_hours) ==
    [production EXCEPT
        !.x_waveoff_hours_applied = @ + applied_hours,
        !.x_waveoff_hours_chargeable = @ + chargeable_hours]

\* waveoff_applied = min(remaining_waveoff, hours)
WaveoffApplied(remaining_waveoff, hours) == MinOf(remaining_waveoff, hours)

\* gear_register_loto: the loop over the productions of one monthly order
RECURSIVE LotoProductionLoop(_, _, _, _)
LotoProductionLoop(days, req, remaining_waveoff, acc) ==
    IF days = <<>> THEN acc
    ELSE
        LET day == Head(days)
            hours == _gear_overlap_hours(day, req.date_start,
                                         req.date_end)
            waveoff_applied == WaveoffApplied(remaining_waveoff, hours)
            chargeable == hours - waveoff_applied
        IN  LotoProductionLoop(
                Tail(days), req, remaining_waveoff - waveoff_applied,
                [acc EXCEPT
                    !.productions[day] =
                        gear_apply_loto_waveoff(
                            gear_allocate_relief_hours(@, hours, "loto"),
                            waveoff_applied, chargeable),
                    !.total_waveoff = @ + waveoff_applied,
                    !.total_chargeable = @ + chargeable])

\* reading a stored computed field of a monthly order that waits to be
\* recomputed processes the pending computations first
ReadOrder(acc, order_id) ==
    IF order_id \in acc.pending
    THEN [acc EXCEPT
            !.orders = Recompute(acc.orders, acc.pending, acc.productions,
                                 gear_loto_ledger, gear_ngt_ledger),
            !.pending = {}]
    ELSE acc

\* gear_register_loto: the loop over the monthly orders of the productions
RECURSIVE LotoOrderLoop(_, _, _)
LotoOrderLoop(order_ids, req, acc) ==
    IF order_ids = <<>> THEN acc
    ELSE
        LET monthly_order == Head(order_ids)
            read == ReadOrder(acc, monthly_order)
            allowance == x_loto_waveoff_hours
            used == read.orders[monthly_order].waveoff_hours_applied
            remaining_waveoff == MaxOf(allowance - used, 0)
            items ==
                {day \in ProductionsBetween(read.productions,
                                            req.date_start,
                                            req.date_end) :
                    read.productions[day].x_monthly_order_id =
                        monthly_order}
            looped == LotoProductionLoop(SortedSeq(items), req,
                                         remaining_waveoff, read)
        IN  LotoOrderLoop(Tail(order_ids), req,
                          [looped EXCEPT !.pending = @ \cup {monthly_order}])

\* the monthly orders of the productions that overlap a request
GroupedOrders(productions, req) ==
    {productions[day].x_monthly_order_id :
        day \in ProductionsBetween(productions, req.date_start,
                                   req.date_end)}

\* gear_register_loto(request): what no production covers is chargeable
gear_register_loto(acc, req) ==
    LET looped == LotoOrderLoop(
                      SortedSeq(GroupedOrders(acc.productions, req)),
                      req, acc)
        hours_total == req.date_end - req.date_start
        remainder == hours_total
                     - (looped.total_waveoff + looped.total_chargeable)
    IN  IF remainder > 0
        THEN [looped EXCEPT !.total_chargeable = @ + remainder]
        ELSE looped

\* gear_register_ngt(request)
gear_register_ngt(acc, req) ==
    LET days == ProductionsBetween(acc.productions, req.date_start,
                                   req.date_end)
    IN  [acc EXCEPT
            !.productions =
                [day \in DOMAIN acc.productions |->
                    gear_allocate_relief_hours(
                        acc.productions[day],
                        _gear_overlap_hours(day, req.date_start,
                                            req.date_end),
                        "ngt")],
            !.pending = @ \cup GroupedOrders(acc.productions, req)]

ReliefRaised(error) == [ReliefRecords EXCEPT !.error = error]

\* the ids of the requests, in the order of their creation
RequestIds == <<"REQ1", "REQ2", "REQ3">>

\* _compute_hours_total of a request
hours_total(req) == req.date_end - req.date_start

\* (mutant) a request is approved whatever its state
ApprovableStates_Any == {"draft", "submitted", "approved", "rejected"}

\* if request.state != "submitted": raise UserError
ApprovableStates == {"submitted"}

\* action_approve of one request, up to the ledger entry: the error it
\* raises, or the records after gear_generate_monthly_orders and
\* gear_register_loto / gear_register_ngt
ApproveRecords(id, is_manager) ==
    LET req == relief_requests[id]
    IN  IF ~is_manager THEN ReliefRaised("UserError")
        ELSE IF req.state \notin ApprovableStates
        THEN ReliefRaised("UserError")
        ELSE IF hours_total(req) = 0 THEN ReliefRaised("UserError")
        ELSE LET generated ==
                     gear_generate_monthly_orders_between(
                         ReliefRecords, DateOf(req.date_start),
                         DateOf(req.date_end))
             IN  IF req.kind = "loto"
                 THEN gear_register_loto(generated, req)
                 ELSE gear_register_ngt(generated, req)

\* _create_ledger_entry: one entry per request
LedgerUpsert(ledger, id, vals) ==
    [r \in DOMAIN ledger \cup {id} |-> IF r = id THEN vals ELSE ledger[r]]

reliefIdle ==
    <<splitVars, windowVars, orderVars, syncVars, retentionVars,
      webhookVars, user_privileged, agreements, agreementData,
      incrementalVars, holdVars, workorderVars>>

\* request.action_approve() by a user who is or is not a Gear On Rent
\* manager; an exception leaves nothing written
action_approve(id, is_manager) ==
    /\ id \in DOMAIN relief_requests
    /\ lastOp' = "action_approve"
    /\ LET req == relief_requests[id]
           result == ApproveRecords(id, is_manager)
           loto_ledger ==
               IF req.kind = "loto"
               THEN LedgerUpsert(gear_loto_ledger, id,
                        [month |-> MonthKey(DateOf(req.date_start)),
                         hours_total |-> hours_total(req),
                         hours_waveoff |-> result.total_waveoff,
                         hours_chargeable |-> result.total_chargeable])
               ELSE gear_loto_ledger
           ngt_ledger ==
               IF req.kind = "ngt"
               THEN LedgerUpsert(gear_ngt_ledger, id,
                        [month |-> MonthKey(DateOf(req.date_start)),
                         hours_relief |-> hours_total(req)])
               ELSE gear_ngt_ledger
       IN  /\ lastError' = result.error
           /\ IF result.error # "none"
              THEN UNCHANGED <<rmc_monthly_orders, mrp_productions,
                               relief_requests, gear_loto_ledger,
                               gear_ngt_ledger>>
              ELSE /\ gear_loto_ledger' = loto_ledger
                   /\ gear_ngt_ledger' = ngt_ledger
                   /\ relief_requests' =
                         [relief_requests EXCEPT ![id] =
                             IF req.kind = "loto"
                             THEN [@ EXCEPT
                                     !.state = "approved",
                                     !.hours_waveoff_applied =
                                         result.total_waveoff,
                                     !.hours_chargeable =
                                         result.total_chargeable]
                             ELSE [@ EXCEPT !.state = "approved"]]
                   /\ mrp_productions' = result.productions
                   /\ rmc_monthly_orders' =
                         Recompute(result.orders, result.pending,
                                   result.productions, loto_ledger,
                                   ngt_ledger)
    /\ UNCHANGED <<x_loto_waveoff_hours, relief_today>>
    /\ UNCHANGED reliefIdle

\* the state-only workflow calls of a request
RequestTransition(op, id, allowed, from, to) ==
    /\ id \in DOMAIN relief_requests
    /\ lastOp' = op
    /\ IF allowed /\ relief_requests[id].state \in from
       THEN /\ lastError' = "none"
            /\ relief_requests' =
                  [relief_requests EXCEPT ![id].state = to]
       ELSE /\ lastError' = "UserError"
            /\ UNCHANGED relief_requests
    /\ UNCHANGED <<x_loto_waveoff_hours, relief_today, rmc_monthly_orders,
                   mrp_productions, gear_loto_ledger, gear_ngt_ledger>>
    /\ UNCHANGED reliefIdle

action_submit(id) ==
    RequestTransition("action_submit", id, TRUE, {"draft"}, "submitted")

action_reset_to_draft(id) ==
    RequestTransition("action_reset_to_draft", id, TRUE,
                      {"submitted", "rejected"}, "draft")

action_reject(id, is_manager) ==
    RequestTransition("action_reject", id, is_manager, {"submitted"},
                      "rejected")

\* gear.loto.request.create() and gear.ngt.request.create(); the ids are
\* given out in order
ReliefRequestCreate(kind, period) ==
    /\ Cardinality(DOMAIN relief_requests) < Len(RequestIds)
    /\ lastOp' = "request_create"
    /\ lastError' = "none"
    /\ LET id == RequestIds[Cardinality(DOMAIN relief_requests) + 1]
       IN  relief_requests' =
              [r \in DOMAIN relief_requests \cup {id} |->
                  IF r = id
                  THEN [kind |-> kind, state |-> "draft",
                        date_start |-> period[1], date_end |-> period[2],
                        hours_waveoff_applied |-> 0, hours_chargeable |-> 0]
                  ELSE relief_requests[r]]
    /\ UNCHANGED <<x_loto_waveoff_hours, relief_today, rmc_monthly_orders,
                   mrp_productions, gear_loto_ledger, gear_ngt_ledger>>
    /\ UNCHANGED reliefIdle

\* monthly_order.action_schedule_orders() on every monthly order, as the
\* set-up of the tests does for its order: the daily productions of the
\* whole windows
RECURSIVE ScheduleAll(_, _)
ScheduleAll(order_ids, acc) ==
    IF order_ids = <<>> THEN acc
    ELSE ScheduleAll(Tail(order_ids),
                     _generate_daily_productions(acc, Head(order_ids), 0))

\* the days of the model, the end of the cooling period inside March, the
\* allowances of the contract and the periods of the requests (in hours)
LastReliefDay == 5
CoolingEndDay == 2
AllowanceValues == {48}
ReliefTodays == {CoolingEndDay, LastReliefDay + 1}
LotoPeriods == {<<0, 60>>, <<60, 96>>, <<96, 120>>}
NgtPeriods == {<<0, 60>>, <<48, 48>>}

\* the monthly orders of the contract: March and April, with March split
\* at the end of the cooling period or not
WindowLayouts ==
    {{<<1, LastDayOfMarch>>, <<LastDayOfMarch + 1, LastReliefDay>>},
     {<<1, CoolingEndDay>>, <<CoolingEndDay + 1, LastDayOfMarch>>,
      <<LastDayOfMarch + 1, LastReliefDay>>}}

InitRelief ==
    /\ InitSplitIdle
    /\ InitWindowsIdle
    /\ InitOrdersIdle
    /\ InitSyncIdle
    /\ InitRetentionIdle
    /\ InitWebhookIdle
    /\ InitAgreementIdle
    /\ user_privileged = FALSE
    /\ agreements = <<>>
    /\ InitIncrementalIdle
    /\ InitHoldIdle
    /\ InitWorkordersIdle
    /\ x_loto_waveoff_hours \in AllowanceValues
    /\ \E layout \in WindowLayouts, scheduled \in BOOLEAN :
          LET created ==
                  [k \in {w[1] : w \in layout} |->
                      RmcMonthlyOrder(k,
                                      (CHOOSE w \in layout : w[1] = k)[2])]
              all == ScheduleAll(
                         SortedSeq(DOMAIN created),
                         [error |-> "none", orders |-> created,
                          productions |-> <<>>, pending |-> {},
                          total_waveoff |-> 0, total_chargeable |-> 0])
          IN  /\ rmc_monthly_orders =
                    IF scheduled THEN all.orders ELSE created
              /\ mrp_productions =
                    IF scheduled THEN all.productions ELSE <<>>
              /\ relief_today \in
                    IF scheduled THEN {LastReliefDay + 1} ELSE ReliefTodays
    /\ relief_requests = <<>>
    /\ gear_loto_ledger = <<>>
    /\ gear_ngt_ledger = <<>>

NextRelief ==
    \/ \E period \in LotoPeriods : ReliefRequestCreate("loto", period)
    \/ \E period \in NgtPeriods : ReliefRequestCreate("ngt", period)
    \/ \E id \in DOMAIN relief_requests : action_submit(id)
    \/ \E id \in DOMAIN relief_requests : action_reset_to_draft(id)
    \/ \E id \in DOMAIN relief_requests, is_manager \in BOOLEAN :
          action_reject(id, is_manager)
    \/ \E id \in DOMAIN relief_requests, is_manager \in BOOLEAN :
          action_approve(id, is_manager)

SpecRelief == InitRelief /\ [][NextRelief]_vars

\* the wave-off allowance of the contract not yet applied by the approved
\* LOTO requests of a month
UnusedAllowance(month) ==
    LET ledgers == {r \in DOMAIN gear_loto_ledger :
                       gear_loto_ledger[r].month = month}
    IN  MaxOf(x_loto_waveoff_hours
              - SumOf([r \in ledgers |-> gear_loto_ledger[r].hours_waveoff]),
              0)

\* C21: when a LOTO request is approved, its wave-off applied hours equal
\* the smaller of its total hours and the wave-off allowance still unused
\* in that month, and its chargeable hours equal its total hours minus the
\* wave-off applied
C21_WaveoffIsMinOfTotalAndUnused ==
    [][lastOp' = "action_approve" =>
          \A id \in DOMAIN relief_requests :
              (/\ relief_requests[id].kind = "loto"
               /\ relief_requests[id].state = "submitted"
               /\ relief_requests'[id].state = "approved")
              => LET req == relief_requests[id]
                     applied == MinOf(hours_total(req),
                                      UnusedAllowance(
                                          MonthKey(DateOf(req.date_start))))
                 IN  /\ relief_requests'[id].hours_waveoff_applied = applied
                     /\ relief_requests'[id].hours_chargeable =
                           hours_total(req) - applied]_vars

\* C22: a request is approved only while it is submitted; approving a
\* request in any other state raises, allocates no relief hours to any
\* production and writes no ledger entry
C22_ApproveOnlySubmitted ==
    [][lastOp' = "action_approve" =>
          /\ \A id \in DOMAIN relief_requests :
                 (/\ relief_requests'[id].state = "approved"
                  /\ relief_requests'[id] # relief_requests[id])
                 => relief_requests[id].state = "submitted"
          /\ lastError' = "none" =>
                 \E id \in DOMAIN relief_requests :
                     /\ relief_requests[id].state = "submitted"
                     /\ relief_requests'[id].state = "approved"
          /\ lastError' # "none" => UNCHANGED reliefVars]_vars

\* an approval was refused while no request was submitted, one of the
\* requests being approved already and its relief allocated
C22_Witness ==
    /\ lastOp = "action_approve"
    /\ lastError = "UserError"
    /\ \A id \in DOMAIN relief_requests :
           relief_requests[id].state # "submitted"
    /\ \E id \in DOMAIN relief_requests :
           /\ relief_requests[id].state = "approved"
           /\ id \in DOMAIN gear_loto_ledger \cup DOMAIN gear_ngt_ledger
    /\ \E id \in DOMAIN relief_requests :
           relief_requests[id].state \in {"draft", "rejected"}
    /\ \E day \in DOMAIN mrp_productions :
           mrp_productions[day].x_ngt_hours
           + mrp_productions[day].x_loto_hours > 0

\* C27: after any sequence of approved LOTO requests the wave-off hours
\* applied to the daily productions of one monthly order add up to no
\* more than the wave-off allowance of the contract
C27_WaveoffOfOrderWithinAllowance ==
    \A k \in DOMAIN rmc_monthly_orders :
        SumOf([day \in production_ids(mrp_productions, k) |->
                  mrp_productions[day].x_waveoff_hours_applied])
        <= x_loto_waveoff_hours

-----------------------------------------------------------------------------
(* The incremental generation of the monthly orders: sale.order            *)
(* action_confirm, gear.rmc.monthly.order action_mark_done and the nightly *)
(* job, over the monthly orders of the contract (monthly_orders).          *)

\* the windows of the contract
ContractWindows ==
    _gear_iter_monthly_windows(x_contract_start, x_contract_end,
                               contract_start_dt, x_cooling_end, tz_offset)

\* the orders among managed_orders to schedule: the order that contains
\* today, or else the latest past one
CurrentOrders(orders, states, managed_orders, today_date) ==
    LET current == {i \in managed_orders :
                       /\ states[i] # "done"
                       /\ orders[i].date_start <= today_date
                       /\ today_date <= orders[i].date_end}
        past_orders == {i \in managed_orders :
                           /\ states[i] # "done"
                           /\ orders[i].date_end < today_date}
        latest == {i \in past_orders :
                      \A j \in past_orders :
                          orders[j].date_end <= orders[i].date_end}
    IN  IF current # {} THEN current ELSE latest

\* gear_generate_monthly_orders(date_start, date_end, limit) on the monthly
\* orders and their states; 0 stands for None. The current orders are
\* scheduled up to today.
GenerateMonthlyOrders(acc, mgq, date_start, date_end, limit, today_date) ==
    LET Overlaps(w) ==
            /\ ~(date_end # 0 /\ w.date_start > date_end)
            /\ ~(date_start # 0 /\ w.date_end < date_start)
        matching == SelectSeq(ContractWindows, Overlaps)
        filtered_windows ==
            IF limit # 0 THEN SubSeq(matching, 1, MinOf(limit, Len(matching)))
            ELSE matching
        upserted ==
            _compute_monthly_target_qty(
                UpsertWindows(acc.orders, mgq, filtered_windows, 1), mgq)
        states ==
            [i \in 1..Len(upserted) |->
                IF i <= Len(acc.states) THEN acc.states[i] ELSE "draft"]
        managed_orders ==
            {SearchMonthlyOrder(upserted, filtered_windows[k].date_start) :
                k \in 1..Len(filtered_windows)}
    IN  IF \/ x_contract_start = 0
           \/ x_contract_end = 0
           \/ mgq <= 0
           \/ filtered_windows = <<>>
        THEN acc
        ELSE [orders |-> upserted,
              states |-> [i \in 1..Len(upserted) |->
                             IF i \in CurrentOrders(upserted, states,
                                                    managed_orders,
                                                    today_date)
                             THEN "scheduled"
                             ELSE states[i]]]

\* (mutant) the next order is created only when its window is imminent
ShouldCreate_ImminentOnly(prev_done, start_date, today_date, horizon_date) ==
    start_date <= today_date \/ start_date <= horizon_date

\* should_create of gear_generate_next_monthly_order
ShouldCreate(prev_done, start_date, today_date, horizon_date) ==
    \/ prev_done
    \/ start_date <= today_date
    \/ start_date <= horizon_date

\* for idx, window in enumerate(windows): ...
RECURSIVE NextOrderLoop(_, _, _, _, _)
NextOrderLoop(idx, acc, mgq, today_date, horizon_date) ==
    IF idx > Len(ContractWindows) THEN acc
    ELSE
    LET window == ContractWindows[idx]
        prev_order ==
            IF idx > 1
            THEN SearchMonthlyOrder(acc.orders,
                                    ContractWindows[idx - 1].date_start)
            ELSE 0
        prev_done == prev_order # 0 /\ acc.states[prev_order] = "done"
    IN  IF \/ SearchMonthlyOrder(acc.orders, window.date_start) # 0
           \/ ~ShouldCreate(prev_done, window.date_start, today_date,
                            horizon_date)
        THEN NextOrderLoop(idx + 1, acc, mgq, today_date, horizon_date)
        ELSE NextOrderLoop(
                 idx + 1,
                 GenerateMonthlyOrders(acc, mgq, window.date_start,
                                       window.date_end, 1, today_date),
                 mgq, today_date, horizon_date)

\* gear_generate_next_monthly_order(horizon_days=1)
gear_generate_next_monthly_order(acc) ==
    NextOrderLoop(1, acc, x_monthly_mgq, order_today, order_today + 1)

incrementalIdle ==
    <<splitVars, windowVars, syncVars, retentionVars, webhookVars,
      user_privileged, agreements, agreementData, reliefVars, holdVars,
      workorderVars>>

\* sale.order.action_confirm() of the RMC contract: the monthly MGQ
\* defaults to the quantity of the production lines, and the monthly order
\* of the first window is prepared
SaleOrderConfirm ==
    /\ sale_order_state = "draft"
    /\ sale_order_state' = "sale"
    /\ lastOp' = "sale_order_confirm"
    /\ lastError' = "none"
    /\ LET mgq == IF x_monthly_mgq <= 0 THEN MonthlyMgq ELSE x_monthly_mgq
           result ==
               GenerateMonthlyOrders(
                   [orders |-> monthly_orders,
                    states |-> monthly_order_states],
                   mgq, 0, 0, 1, order_today)
       IN  /\ x_monthly_mgq' = mgq
           /\ monthly_orders' = result.orders
           /\ monthly_order_states' = result.states
    /\ UNCHANGED order_today
    /\ UNCHANGED incrementalIdle

\* monthly_order.action_mark_done()
action_mark_done(i) ==
    /\ i \in 1..Len(monthly_orders)
    /\ lastOp' = "action_mark_done"
    /\ lastError' = "none"
    /\ LET result ==
               gear_generate_next_monthly_order(
                   [orders |-> monthly_orders,
                    states |-> [monthly_order_states EXCEPT ![i] = "done"]])
       IN  /\ monthly_orders' = result.orders
           /\ monthly_order_states' = result.states
    /\ UNCHANGED <<x_monthly_mgq, sale_order_state, order_today>>
    /\ UNCHANGED incrementalIdle

\* _cron_generate_next_monthly_orders, the nightly job
_cron_generate_next_monthly_orders ==
    /\ lastOp' = "cron_generate_next_monthly_orders"
    /\ lastError' = "none"
    /\ LET result ==
               IF sale_order_state = "sale"
               THEN gear_generate_next_monthly_order(
                        [orders |-> monthly_orders,
                         states |-> monthly_order_states])
               ELSE [orders |-> monthly_orders,
                     states |-> monthly_order_states]
       IN  /\ monthly_orders' = result.orders
           /\ monthly_order_states' = result.states
    /\ UNCHANGED <<x_monthly_mgq, sale_order_state, order_today>>
    /\ UNCHANGED incrementalIdle

\* the days on which the contract is looked at: before its start, around
\* the starts of its windows and the cooling end, and after its end
OrderDays ==
    {FirstDay - 2, FirstDay, FirstDay + 1, FirstDay + 2, FirstDay + 14,
     FirstDay + 15, FirstDay + 16, LastDay - 1, LastDay, LastDay + 1}

\* days pass
NextDay ==
    /\ \E day \in OrderDays :
          /\ day > order_today
          /\ order_today' = day
    /\ lastOp' = "next_day"
    /\ lastError' = "none"
    /\ UNCHANGED <<x_monthly_mgq, monthly_orders, sale_order_state,
                   monthly_order_states>>
    /\ UNCHANGED incrementalIdle

\* a draft RMC contract of several months, on a day before, inside or
\* after its span
InitIncremental ==
    /\ InitSplitIdle
    /\ InitSyncIdle
    /\ InitRetentionIdle
    /\ InitWebhookIdle
    /\ InitAgreementIdle
    /\ InitReliefIdle
    /\ InitHoldIdle
    /\ InitWorkordersIdle
    /\ user_privileged = FALSE
    /\ agreements = <<>>
    /\ InitContract
    /\ sale_order_state = "draft"
    /\ monthly_order_states = <<>>
    /\ order_today \in OrderDays

NextIncremental ==
    \/ SaleOrderConfirm
    \/ \E i \in 1..MaxMonthlyOrders : action_mark_done(i)
    \/ _cron_generate_next_monthly_orders
    \/ NextDay

SpecIncremental == InitIncremental /\ [][NextIncremental]_vars

\* the monthly order of the window idx of the contract, or 0
OrderOfWindow(orders, idx) ==
    SearchMonthlyOrder(orders, ContractWindows[idx].date_start)

\* C23: confirming an RMC contract of several months leaves exactly one
\* monthly order, the one of the first window of the contract; and after a
\* monthly order is marked done, every window that follows the window of a
\* done monthly order has its monthly order.
C23_FirstWindowThenNextOnDone ==
    [][/\ lastOp' = "sale_order_confirm" =>
            /\ Len(monthly_orders') = 1
            /\ OrderOfWindow(monthly_orders', 1) = 1
       /\ lastOp' = "action_mark_done" =>
            \A idx \in 1..(Len(ContractWindows) - 1) :
                LET prev == OrderOfWindow(monthly_orders', idx)
                IN  (prev # 0 /\ monthly_order_states'[prev] = "done")
                        => OrderOfWindow(monthly_orders', idx + 1) # 0]_vars

\* the first monthly order was marked done days before the second window
\* begins, and the order of the second window now exists
C23_Witness ==
    /\ lastOp = "action_mark_done"
    /\ Len(ContractWindows) >= 3
    /\ Len(monthly_orders) = 2
    /\ monthly_order_states[1] = "done"
    /\ OrderOfWindow(monthly_orders, 2) = 2
    /\ monthly_orders[2].date_start > order_today + 1

-----------------------------------------------------------------------------
(* The payment hold of the agreement: _compute_payment_hold, run on the     *)
(* agreement at any point of its life cycle.                               *)

\* agreement._compute_payment_hold()
_compute_payment_hold ==
    /\ payment_hold' = FALSE
    /\ payment_hold_reason' = <<>>
    /\ lastOp' = "_compute_payment_hold"
    /\ lastError' = "none"
    /\ UNCHANGED <<splitVars, windowVars, orderVars, syncVars,
                   retentionVars, webhookVars, user_privileged, agreements,
                   reliefVars, incrementalVars, workorderVars,
                   agreementData>>

NextPaymentHold ==
    \/ NextLifecycle
    \/ _compute_payment_hold

SpecPaymentHold == InitLifecycle /\ [][NextPaymentHold]_vars

\* C24: an agreement that is not signed has payment_hold = True and a hold
\* reason that says that the agreement is not signed.
C24_UnsignedAgreementOnHold ==
    (lastOp = "_compute_payment_hold" /\ ~is_signed)
        => /\ payment_hold
           /\ payment_hold_reason = <<"Agreement not signed">>

-----------------------------------------------------------------------------
(* The work orders of a daily production: the chunk work orders of         *)
(* _gear_sync_production_workorders and _gear_release_next_workorder, the  *)
(* dockets of the work orders and the telemetry of the work center.        *)

\* the largest element of a finite set of numbers, 0 for the empty set
MaxOfSet(S) == IF S = {} THEN 0 ELSE CHOOSE x \in S : \A y \in S : y <= x

\* the records a call works on
WorkorderRecords ==
    [workorders |-> workorder_ids, pending |-> x_pending_workorder_chunks,
     dockets |-> x_docket_ids]

\* the indices of the dockets of a work order (workorder.gear_docket_ids)
gear_docket_ids(docket_records, id) ==
    {i \in 1..Len(docket_records) : docket_records[i].workorder_id = id}

\* the quantity of the order lines of the contract, which a docket without
\* ordered quantity takes over (_gear_backfill_links)
ContractLineQty == 480000

\* gear.rmc.docket create(vals) with the links filled in
DocketCreate(docket_records, docket_no, workorder_id, source, state, qty_m3, quantity_ordered) ==
    Append(docket_records,
           [docket_no |-> docket_no, workorder_id |-> workorder_id,
            source |-> source, state |-> state, qty_m3 |-> qty_m3,
            quantity_ordered |-> IF quantity_ordered # 0
                                 THEN quantity_ordered
                                 ELSE ContractLineQty])

\* docket._gear_sync_workorder_quantities(): the produced quantity of the
\* work order follows the quantities of its dockets that are not cancelled
_gear_sync_workorder_quantities(acc, id) ==
    LET live == {i \in gear_docket_ids(acc.dockets, id) :
                    acc.dockets[i].state # "cancel"}
        produced == SumOf([i \in live |-> acc.dockets[i].qty_m3])
    IN  IF id \in DOMAIN acc.workorders /\ produced # 0
        THEN [acc EXCEPT !.workorders[id].qty_produced = produced]
        ELSE acc

\* the docket number of _gear_autocreate_dockets: the name of the work
\* order, with the first suffix that makes it new in the contract
AutoDocketNo(docket_records, seq) ==
    LET taken == {docket_records[i].docket_no[3] :
                     i \in {j \in 1..Len(docket_records) :
                               /\ docket_records[j].docket_no[1] = "workorder"
                               /\ docket_records[j].docket_no[2] = seq}}
    IN  <<"workorder", seq,
          CHOOSE k \in 1..(Cardinality(taken) + 1) :
              /\ k \notin taken
              /\ \A j \in 1..(k - 1) : j \in taken>>

\* Workorder.create(vals) for a chunk, with _gear_autocreate_dockets
WorkorderCreate(acc, seq, qty) ==
    LET id == MaxOfSet(DOMAIN acc.workorders) + 1
    IN  [acc EXCEPT
            !.workorders =
                [w \in DOMAIN acc.workorders \cup {id} |->
                    IF w = id
                    THEN [gear_chunk_sequence |-> seq, state |-> "ready",
                          qty_production |-> qty, qty_produced |-> 0]
                    ELSE acc.workorders[w]],
            !.dockets = DocketCreate(acc.dockets,
                                     AutoDocketNo(acc.dockets, seq), id,
                                     "manual", "draft", 0, qty)]

\* the entries of the chunks of the production
ChunkEntries(qty_total, param) ==
    LET chunk_cap == IF param <= 0 THEN DefaultMaxChunkMilli ELSE param
        chunks == _gear_split_quantity(qty_total, chunk_cap)
    IN  [idx \in 1..Len(chunks) |-> [seq |-> idx, qty |-> chunks[idx]]]

\* next_seq of _gear_sync_production_workorders
NextSeq(workorders) ==
    LET done_workorders == {w \in DOMAIN workorders :
                               workorders[w].state = "done"}
        known_sequences == {workorders[w].gear_chunk_sequence :
                               w \in done_workorders} \ {0}
    IN  IF known_sequences # {} THEN MaxOfSet(known_sequences) + 1
        ELSE Cardinality(done_workorders) + 1

\* (mutant) no work order is taken for the one of the current chunk
ActiveOf_None(workorders, next_seq) == {}

\* active: the work orders neither done nor cancelled of the current chunk
ActiveOf(workorders, next_seq) ==
    {w \in DOMAIN workorders :
        /\ workorders[w].state \notin {"done", "cancel"}
        /\ workorders[w].gear_chunk_sequence = next_seq}

\* the surplus work orders are removed with their dockets; a work order in
\* progress stays, and so does one whose removal, or the removal of whose
\* dockets, fails
RemoveExtras(acc, extras, outcome) ==
    LET removable == {w \in extras : acc.workorders[w].state # "progress"}
        with_dockets == {w \in removable :
                            gear_docket_ids(acc.dockets, w) # {}}
        without_dockets ==
            SelectSeq(acc.dockets,
                      LAMBDA d : d.workorder_id \notin removable)
    IN  IF outcome = "docket_unlink_failed"
        THEN [acc EXCEPT
                !.workorders =
                    [w \in DOMAIN acc.workorders
                              \ (removable \ with_dockets) |->
                        acc.workorders[w]]]
        ELSE IF outcome = "workorder_unlink_failed"
        THEN [acc EXCEPT !.dockets = without_dockets]
        ELSE [acc EXCEPT
                !.workorders = [w \in DOMAIN acc.workorders \ removable |->
                                   acc.workorders[w]],
                !.dockets = without_dockets]

\* _gear_sync_production_workorders(production, ...)
_gear_sync_production_workorders(acc, qty_total, param, outcome) ==
    LET entries == ChunkEntries(qty_total, param)
        max_seq == Len(entries)
        next_seq == NextSeq(acc.workorders)
        has_current == next_seq <= max_seq
        pending_entries ==
            IF has_current
            THEN SelectSeq(entries, LAMBDA entry : entry.seq > next_seq)
            ELSE <<>>
        active_candidates ==
            {w \in DOMAIN acc.workorders :
                acc.workorders[w].state \notin {"done", "cancel"}}
        active == IF has_current THEN ActiveOf(acc.workorders, next_seq)
                  ELSE {}
        extras == IF active # {} THEN active_candidates \ active
                  ELSE active_candidates
        queued == [acc EXCEPT !.pending = pending_entries]
        written ==
            IF ~has_current THEN queued
            ELSE IF active # {}
            THEN [queued EXCEPT
                    !.workorders[CHOOSE w \in active :
                                    \A x \in active : w <= x]
                        .qty_production = entries[next_seq].qty]
            ELSE WorkorderCreate(queued, next_seq, entries[next_seq].qty)
    IN  RemoveExtras(written, extras, outcome)

\* pending_entries.pop(0)
PopPending(pending_entries) == Tail(pending_entries)

\* workorder._gear_release_next_workorder() of the work order id
_gear_release_next_workorder(acc, id) ==
    LET in_progress == {w \in DOMAIN acc.workorders :
                           acc.workorders[w].state = "progress"}
        next_candidate ==
            {w \in DOMAIN acc.workorders :
                /\ acc.workorders[w].state \in {"ready", "blocked"}
                /\ w # id}
        payload == Head(acc.pending)
    IN  IF in_progress # {} THEN acc
        ELSE IF next_candidate = {} /\ acc.pending # <<>>
        THEN IF payload.qty > 0
             THEN WorkorderCreate(
                      [acc EXCEPT !.pending = PopPending(acc.pending)],
                      payload.seq, payload.qty)
             ELSE [acc EXCEPT !.pending = PopPending(acc.pending)]
        ELSE acc

\* the states in which _gear_update_docket_states and the finalization of
\* _gear_finalize_dockets still move a docket
valid_states == {"draft", "in_production", "ready", "dispatched"}

\* workorder._gear_update_docket_states(target_state)
_gear_update_docket_states(acc, id, target_state) ==
    [acc EXCEPT
        !.dockets =
            [i \in 1..Len(acc.dockets) |->
                IF /\ acc.dockets[i].workorder_id = id
                   /\ acc.dockets[i].state \in valid_states
                THEN [acc.dockets[i] EXCEPT !.state = target_state]
                ELSE acc.dockets[i]]]

\* the allocation loop of _gear_finalize_dockets over the dockets without
\* quantity, taken in the order of their creation
RECURSIVE AllocateLoop(_, _, _)
AllocateLoop(acc, ordered_dockets, remaining) ==
    IF ordered_dockets = <<>> THEN acc
    ELSE
    LET i == Head(ordered_dockets)
        docket == acc.dockets[i]
        preferred == IF docket.quantity_ordered # 0
                     THEN docket.quantity_ordered ELSE remaining
        planned == IF preferred # 0 THEN MinOf(preferred, remaining) ELSE 0
        is_last == Len(ordered_dockets) = 1
        allocation == IF planned <= 0 /\ remaining > 0 /\ is_last
                      THEN remaining ELSE planned
        left == MaxOf(remaining - allocation, 0)
        \* if remaining > 0 and ordered_dockets: the last one takes the rest
        qty_m3 == IF is_last /\ left > 0 THEN allocation + left
                  ELSE allocation
    IN  AllocateLoop(
            [acc EXCEPT !.dockets[i].qty_m3 = qty_m3,
                        !.dockets[i].state = "delivered"],
            Tail(ordered_dockets), left)

\* workorder._gear_finalize_dockets()
_gear_finalize_dockets(acc, id) ==
    LET the_workorder == acc.workorders[id]
        produced_qty ==
            IF the_workorder.qty_produced # 0 THEN the_workorder.qty_produced
            ELSE the_workorder.qty_production
        pending_dockets ==
            {i \in gear_docket_ids(acc.dockets, id) :
                acc.dockets[i].qty_m3 = 0}
        allocated ==
            IF produced_qty # 0 /\ pending_dockets # {}
            THEN _gear_sync_workorder_quantities(
                     AllocateLoop(acc, SortedSeq(pending_dockets),
                                  produced_qty),
                     id)
            ELSE acc
    IN  _gear_update_docket_states(allocated, id, "delivered")

\* production.workorder_ids[:1]: the first work order, or 0
FirstWorkorder(workorders) ==
    IF DOMAIN workorders = {} THEN 0
    ELSE CHOOSE w \in DOMAIN workorders : \A x \in DOMAIN workorders : w <= x

\* the docket number of the daily docket of the scheduling run
CronDocketNo == <<"production", 0, 0>>

\* (mutant) the daily docket is reset whatever its source
ResetsToDraft_AnySource(docket) == docket.state # "draft"

\* if docket.source == "cron" and docket.state != "draft"
ResetsToDraft(docket) == docket.source = "cron" /\ docket.state # "draft"

\* the place of a docket number in the order of the docket numbers of the
\* production: the number of the daily docket after those of the work
\* orders, these after the numbers of the telemetry
DocketNoRank(docket_no) ==
    IF docket_no[1] = "production" THEN 3
    ELSE IF docket_no[1] = "workorder" THEN 2
    ELSE IF docket_no[1] = "ids" THEN 0
    ELSE 1

DocketNoBefore(a, b) ==
    \/ DocketNoRank(a) < DocketNoRank(b)
    \/ /\ DocketNoRank(a) = DocketNoRank(b)
       /\ \/ a[2] < b[2]
          \/ a[2] = b[2] /\ a[3] < b[3]

\* production.x_docket_ids[:1] in the order "date desc, docket_no desc" of
\* dockets of one day: the index of the docket, or 0
FirstDocket(docket_records) ==
    IF docket_records = <<>> THEN 0
    ELSE CHOOSE i \in 1..Len(docket_records) :
            \A j \in 1..Len(docket_records) :
                j # i => DocketNoBefore(docket_records[j].docket_no,
                                        docket_records[i].docket_no)

\* _gear_ensure_daily_docket(production, ...)
_gear_ensure_daily_docket(acc) ==
    LET existing == FirstDocket(acc.dockets)
        the_workorder == FirstWorkorder(acc.workorders)
        linked ==
            IF existing # 0
            THEN IF /\ the_workorder # 0
                    /\ acc.dockets[existing].workorder_id # the_workorder
                 THEN LET moved == [acc EXCEPT
                                      !.dockets[existing].workorder_id =
                                          the_workorder]
                      IN  _gear_sync_workorder_quantities(moved,
                                                          the_workorder)
                 ELSE acc
            ELSE [acc EXCEPT
                    !.dockets = DocketCreate(acc.dockets, CronDocketNo,
                                             the_workorder, "cron", "draft",
                                             0, 0)]
        docket == IF existing # 0 THEN existing ELSE Len(linked.dockets)
    IN  IF ResetsToDraft(linked.dockets[docket])
        THEN [linked EXCEPT !.dockets[docket].state = "draft"]
        ELSE linked

\* the work order the telemetry of the work center is registered on:
\* gear_find_workorder's ready or running work order, or else the first
\* work order of the first production of the monthly order; 0 when none
TelemetryWorkorder(workorders) ==
    LET candidate_workorders ==
            {w \in DOMAIN workorders :
                workorders[w].state \in {"ready", "progress"}}
        running == {w \in candidate_workorders :
                       workorders[w].state = "progress"}
    IN  IF running # {} THEN MaxOfSet(running)
        ELSE IF candidate_workorders # {}
        THEN MaxOfSet(candidate_workorders)
        ELSE FirstWorkorder(workorders)

\* each delivery adds its quantity to the docket
DocketPayloadQty_Added(docket, payload) ==
    docket.qty_m3 + payload.produced_m3

\* the qty_m3 of docket_payload, which the docket of a delivery gets
DocketPayloadQty(docket, payload) == payload.produced_m3

\* the docket number a telemetry payload gets on the work order id
PayloadDocketNo(payload, id) ==
    IF payload.docket_no # <<>> THEN payload.docket_no[1]
    ELSE <<"ids", id, 0>>

\* gear_create_from_workorder(workorder, payload), with the write of the
\* docket; unique(so_id, docket_no) refuses a number that another docket
\* of the contract has
DocketFromWorkorder(acc, id, payload) ==
    LET docket_no == PayloadDocketNo(payload, id)
        found == {i \in 1..Len(acc.dockets) :
                     /\ acc.dockets[i].workorder_id = id
                     /\ acc.dockets[i].docket_no = docket_no}
        docket == CHOOSE i \in found : \A j \in found : i <= j
        taken == \E i \in 1..Len(acc.dockets) :
                     acc.dockets[i].docket_no = docket_no
        written ==
            IF found # {}
            THEN [acc EXCEPT !.dockets[docket].state = "in_production",
                             !.dockets[docket].qty_m3 =
                                 DocketPayloadQty(acc.dockets[docket],
                                                  payload),
                             !.dockets[docket].source = "ids"]
            ELSE [acc EXCEPT
                    !.dockets = DocketCreate(acc.dockets, docket_no, id,
                                             "ids", "in_production",
                                             DocketPayloadQty(
                                                 [qty_m3 |-> 0], payload),
                                             0)]
    IN  IF found = {} /\ taken
        THEN [error |-> "IntegrityError", data |-> acc]
        ELSE [error |-> "none",
              data |-> _gear_sync_workorder_quantities(written, id)]

workorderIdle ==
    <<splitVars, windowVars, orderVars, syncVars, retentionVars,
      webhookVars, user_privileged, agreements, agreementData, reliefVars,
      incrementalVars, holdVars>>

\* the records of a call are stored
StoreWorkorderRecords(result) ==
    /\ workorder_ids' = result.workorders
    /\ x_pending_workorder_chunks' = result.pending
    /\ x_docket_ids' = result.dockets

\* the dockets of the production the model follows
MaxDockets == 4

\* a scheduling run over the day of the production: the quantity of the
\* production is written, its work orders are synchronised and its daily
\* docket is ensured (_generate_daily_productions)
action_schedule_orders(daily_target, outcome) ==
    /\ Len(x_docket_ids) < MaxDockets
    /\ lastOp' = "action_schedule_orders"
    /\ lastError' = "none"
    /\ product_qty' = daily_target
    /\ StoreWorkorderRecords(
           _gear_ensure_daily_docket(
               _gear_sync_production_workorders(
                   WorkorderRecords, daily_target, workorder_max_qty,
                   outcome)))
    /\ UNCHANGED <<workorder_max_qty, ids_payload, ids_response>>
    /\ UNCHANGED workorderIdle

\* workorder.button_start()
button_start(id) ==
    /\ id \in DOMAIN workorder_ids
    /\ workorder_ids[id].state = "ready"
    /\ lastOp' = "button_start"
    /\ lastError' = "none"
    /\ StoreWorkorderRecords(
           _gear_update_docket_states(
               [WorkorderRecords EXCEPT !.workorders[id].state = "progress"],
               id, "in_production"))
    /\ UNCHANGED <<workorder_max_qty, product_qty, ids_payload,
                   ids_response>>
    /\ UNCHANGED workorderIdle

\* workorder.button_finish(): the write of state done releases the next
\* chunk, then the dockets of the work order are finalized
button_finish(id) ==
    /\ id \in DOMAIN workorder_ids
    /\ workorder_ids[id].state \in {"ready", "progress"}
    /\ Len(x_docket_ids) < MaxDockets
    /\ lastOp' = "button_finish"
    /\ lastError' = "none"
    /\ StoreWorkorderRecords(
           _gear_finalize_dockets(
               _gear_release_next_workorder(
                   [WorkorderRecords EXCEPT !.workorders[id].state = "done"],
                   id),
               id))
    /\ UNCHANGED <<workorder_max_qty, product_qty, ids_payload,
                   ids_response>>
    /\ UNCHANGED workorderIdle

MaxCancelled == 1

\* workorder.action_cancel()
action_cancel(id) ==
    /\ id \in DOMAIN workorder_ids
    /\ workorder_ids[id].state \notin {"done", "cancel"}
    /\ Cardinality({w \in DOMAIN workorder_ids :
                       workorder_ids[w].state = "cancel"}) < MaxCancelled
    /\ lastOp' = "action_cancel"
    /\ lastError' = "none"
    /\ StoreWorkorderRecords(
           _gear_update_docket_states(
               [WorkorderRecords EXCEPT !.workorders[id].state = "cancel"],
               id, "cancel"))
    /\ UNCHANGED <<workorder_max_qty, product_qty, ids_payload,
                   ids_response>>
    /\ UNCHANGED workorderIdle

\* the last two of a sequence of entries with a new one
LastTwo(log, entry) ==
    IF log = <<>> THEN <<entry>> ELSE <<log[Len(log)], entry>>

\* POST /ids/workcenter/update with a payload of the work center, no token
\* being configured: the payload is registered on the work order found, and
\* an exception rolls everything back
ids_telemetry_update(payload) ==
    /\ Len(x_docket_ids) < MaxDockets
    /\ lastOp' = "ids_workcenter_update"
    /\ LET id == TelemetryWorkorder(workorder_ids)
           result == DocketFromWorkorder(WorkorderRecords, id, payload)
       IN  /\ ids_payload' = LastTwo(ids_payload, payload)
           /\ IF id = 0
              THEN /\ lastError' = "none"
                   /\ ids_response' =
                         LastTwo(ids_response,
                                 [status |-> "error", workorder_id |-> 0])
                   /\ UNCHANGED <<workorder_ids, x_pending_workorder_chunks,
                                  x_docket_ids>>
              ELSE IF result.error # "none"
              THEN /\ lastError' = result.error
                   /\ ids_response' =
                         LastTwo(ids_response,
                                 [status |-> "error", workorder_id |-> 0])
                   /\ UNCHANGED <<workorder_ids, x_pending_workorder_chunks,
                                  x_docket_ids>>
              ELSE /\ lastError' = "none"
                   /\ ids_response' =
                         LastTwo(ids_response,
                                 [status |-> "ok", workorder_id |-> id])
                   /\ StoreWorkorderRecords(result.data)
    /\ UNCHANGED <<workorder_max_qty, product_qty>>
    /\ UNCHANGED workorderIdle

\* the parameter with a third decimal and the daily target it splits in
\* three, the daily targets split by the default parameter, and the
\* quantity of a telemetry payload (thousandths)
SmallMaxChunkMilli == 4
SmallTargetMilli == 10
TelemetryQtyMilli == 5000

DailyTargets(param) ==
    IF param = SmallMaxChunkMilli THEN {SmallTargetMilli}
    ELSE {DefaultMaxChunkMilli, 2 * DefaultMaxChunkMilli}

UnlinkOutcomes ==
    {"unlinked", "docket_unlink_failed", "workorder_unlink_failed"}

TelemetryPayloads ==
    [docket_no : {<<>>, <<<<"D1", 0, 0>>>>},
     produced_m3 : {TelemetryQtyMilli}]

\* the production after the scheduling run that created it
InitWorkorders ==
    /\ InitSplitIdle
    /\ InitWindowsIdle
    /\ InitOrdersIdle
    /\ InitSyncIdle
    /\ InitRetentionIdle
    /\ InitWebhookIdle
    /\ InitAgreementIdle
    /\ InitReliefIdle
    /\ InitIncrementalIdle
    /\ InitHoldIdle
    /\ user_privileged = FALSE
    /\ agreements = <<>>
    /\ workorder_max_qty \in {SmallMaxChunkMilli, DefaultMaxChunkMilli}
    /\ product_qty \in DailyTargets(workorder_max_qty)
    /\ LET first ==
               _gear_ensure_daily_docket(
                   _gear_sync_production_workorders(
                       [workorders |-> <<>>, pending |-> <<>>,
                        dockets |-> <<>>],
                       product_qty, workorder_max_qty, "unlinked"))
       IN  /\ workorder_ids = first.workorders
           /\ x_pending_workorder_chunks = first.pending
           /\ x_docket_ids = first.dockets
    /\ ids_payload = <<>>
    /\ ids_response = <<>>

NextWorkorders ==
    \/ \E daily_target \in DailyTargets(workorder_max_qty),
          outcome \in UnlinkOutcomes :
          action_schedule_orders(daily_target, outcome)
    \/ \E id \in DOMAIN workorder_ids : button_start(id)
    \/ \E id \in DOMAIN workorder_ids : button_finish(id)
    \/ \E id \in DOMAIN workorder_ids : action_cancel(id)
    \/ \E payload \in TelemetryPayloads : ids_telemetry_update(payload)

SpecWorkorders == InitWorkorders /\ [][NextWorkorders]_vars

\* the work orders of the production that are neither done nor cancelled
OpenWorkorders ==
    {w \in DOMAIN workorder_ids :
        workorder_ids[w].state \notin {"done", "cancel"}}

\* C25: a daily production has at most one chunk work order that is
\* neither done nor cancelled, and the chunks of the pending queue are
\* those after the chunks of its work orders that are not cancelled.
C25_OneOpenChunkRestQueued ==
    /\ Cardinality(OpenWorkorders) <= 1
    /\ \A k \in 1..Len(x_pending_workorder_chunks) :
          \A w \in DOMAIN workorder_ids :
              workorder_ids[w].state # "cancel"
                  => workorder_ids[w].gear_chunk_sequence
                        < x_pending_workorder_chunks[k].seq

\* the first chunk is done, the second is running and the third waits
C25_Witness ==
    /\ lastOp = "button_start"
    /\ Cardinality(OpenWorkorders) = 1
    /\ \E w \in DOMAIN workorder_ids : workorder_ids[w].state = "done"
    /\ x_pending_workorder_chunks # <<>>

\* the number of times the chunk seq is held by a work order that is not
\* cancelled or by the pending queue
ChunkHolders(seq) ==
    Cardinality({w \in DOMAIN workorder_ids :
                    /\ workorder_ids[w].state # "cancel"
                    /\ workorder_ids[w].gear_chunk_sequence = seq})
      + Cardinality({k \in 1..Len(x_pending_workorder_chunks) :
                        x_pending_workorder_chunks[k].seq = seq})

\* C26: as long as no work order was cancelled, each chunk 1..n of the
\* production is held exactly once by its work orders and its pending
\* queue together.
C26_EveryChunkHeldOnce ==
    (\A w \in DOMAIN workorder_ids : workorder_ids[w].state # "cancel")
        => \A seq \in 1..Len(ChunkEntries(product_qty, workorder_max_qty)) :
               ChunkHolders(seq) = 1

\* a docket that is delivered or cancelled before the step is not in draft
\* or in production after it, unless it is one of the excepted dockets
StaysClosedUnless(Excepted(_)) ==
    \A i \in 1..Len(x_docket_ids) :
        (/\ x_docket_ids[i].state \in {"delivered", "cancel"}
         /\ ~Excepted(x_docket_ids[i]))
            => \A j \in 1..Len(x_docket_ids') :
                   x_docket_ids'[j].docket_no = x_docket_ids[i].docket_no
                       => x_docket_ids'[j].state
                             \notin {"draft", "in_production"}

\* C28 as stated: a docket that is delivered or cancelled never returns to
\* draft or in_production, whatever happens later.
C28_ClosedDocketNeverReopens ==
    [][LET Nothing(docket) == FALSE
       IN  StaysClosedUnless(Nothing)]_vars

\* C28, amended: a docket that is delivered or cancelled does not return to
\* draft or in_production, except that a scheduling run resets the daily
\* docket of source cron to draft and that a telemetry update that carries
\* the number of the docket for its work order sets it to in_production.
C28_ClosedDocketReopensOnlyByCronOrTelemetry ==
    [][LET ResetOrAddressed(docket) ==
               \/ /\ lastOp' = "action_schedule_orders"
                  /\ docket.source = "cron"
               \/ /\ lastOp' = "ids_workcenter_update"
                  /\ LET id == TelemetryWorkorder(workorder_ids)
                     IN  /\ docket.workorder_id = id
                         /\ docket.docket_no =
                               PayloadDocketNo(
                                   ids_payload'[Len(ids_payload')], id)
       IN  StaysClosedUnless(ResetOrAddressed)]_vars

\* a scheduling run has passed over a production with a delivered and a
\* cancelled docket, a work order running
C28_Witness ==
    /\ lastOp = "action_schedule_orders"
    /\ \E i \in 1..Len(x_docket_ids) : x_docket_ids[i].state = "delivered"
    /\ \E i \in 1..Len(x_docket_ids) : x_docket_ids[i].state = "cancel"
    /\ \E w \in DOMAIN workorder_ids : workorder_ids[w].state = "progress"

\* the dockets of a work order with a docket number
DocketsOf(docket_records, id, docket_no) ==
    {i \in 1..Len(docket_records) :
        /\ docket_records[i].workorder_id = id
        /\ docket_records[i].docket_no = docket_no}

\* the last two telemetry payloads were the same, and both were registered
\* on the same work order
DeliveredTwice ==
    /\ Len(ids_payload) = 2
    /\ ids_payload[1] = ids_payload[2]
    /\ ids_response[1].status = "ok"
    /\ ids_response[2] = ids_response[1]

\* C29: when the same telemetry payload has been delivered twice for the
\* same work order, exactly one docket of the work order has the docket
\* number of the payload, and its quantity is that of one delivery.
C29_RepeatedDeliveryKeepsOneDocket ==
    [][(lastOp' = "ids_workcenter_update" /\ DeliveredTwice')
          => LET id == ids_response'[2].workorder_id
                 held == DocketsOf(x_docket_ids', id,
                                 PayloadDocketNo(ids_payload'[2], id))
             IN  /\ Cardinality(held) = 1
                 /\ \A i \in held :
                       x_docket_ids'[i].qty_m3 = ids_payload'[2].produced_m3]_vars

\* the second delivery of a payload has updated the docket of the first
C29_Witness ==
    /\ lastOp = "ids_workcenter_update"
    /\ DeliveredTwice
    /\ Cardinality(DocketsOf(x_docket_ids, ids_response[2].workorder_id,
                             PayloadDocketNo(ids_payload[2],
                                             ids_response[2].workorder_id)))
          = 1

-----------------------------------------------------------------------------
(* The prorated targets of the windows of one month (sale_order.py,        *)
(* _gear_iter_monthly_windows and gear_generate_monthly_orders;            *)
(* rmc_work_order.py, _gear_get_prorated_mgq), for contracts with a        *)
(* cooling end at any of the wall-clock times of any day.                  *)

InitProration ==
    /\ InitSplitIdle
    /\ InitMiscIdle
    /\ InitSyncIdle
    /\ InitAgreementIdle
    /\ x_contract_start \in ContractStartDays
    /\ x_contract_end \in ContractEndDays
    /\ tz_offset \in TzOffsets
    /\ contract_start_dt = <<>>
    /\ x_cooling_end \in CoolingEnds(tz_offset)
    /\ windows = <<>>
    /\ windows_done = FALSE
    /\ x_monthly_mgq \in MgqValues
    /\ monthly_orders = <<>>

SpecProration == InitProration /\ [][NextOrders]_vars

\* the sum of two quantities; the targets of the windows of one month have
\* the hours of the month as their common denominator
AddRat(a, b) ==
    IF a.den = b.den THEN Rat(a.num + b.num, a.den)
    ELSE Rat(a.num * b.den + b.num * a.den, a.den * b.den)

\* the sum of the targets of the monthly orders whose window lies in month m
RECURSIVE SumTargets(_, _, _)
SumTargets(orders, m, k) ==
    IF k > Len(orders) THEN Rat(0, 1)
    ELSE IF MonthOf(orders[k].date_start) = m
    THEN AddRat(orders[k].monthly_target_qty, SumTargets(orders, m, k + 1))
    ELSE SumTargets(orders, m, k + 1)

\* the calendar month m lies entirely inside the contract span
MonthInside(m) ==
    /\ x_contract_start <= DaysBefore(m) + 1
    /\ DaysBefore(m) + MonthDays[m] <= x_contract_end

\* the cooling end, as wall-clock time of the user's zone, lies in month m
CoolingEndsIn(m) ==
    /\ x_cooling_end # <<>>
    /\ NaiveStart(DaysBefore(m) + 1) <= x_cooling_end[1] + tz_offset
    /\ x_cooling_end[1] + tz_offset <= NaiveEnd(DaysBefore(m) + MonthDays[m])

\* the cooling end is the last second, 23:59:59, of a day of the user's zone
CoolingEndsWithDay ==
    (x_cooling_end[1] + tz_offset) % SecondsPerDay = EndOfDaySecond

\* the monthly orders of the month m
OrdersOfMonth(orders, m) ==
    {k \in 1..Len(orders) : MonthOf(orders[k].date_start) = m}

====
